---- MODULE Spec2Model ----
(***************************************************************************)
(* A model of the saber front end: the character-level Lexer               *)
(* (src/src/lexer/lexer.rs), the keyword table (src/src/token/token.rs),     *)
(* the Pratt Parser (src/src/parser/mod.rs) and the canonical text form of   *)
(* the AST (src/src/ast/mod.rs).                                             *)
(*                                                                         *)
(* A String is a sequence of characters; a character is a one-character    *)
(* TLA+ string, except the three characters that have no printable ASCII   *)
(* form: "NUL" (U+0000), "U+00E9" (e acute: alphabetic, two UTF-8 bytes)     *)
(* and "U+20AC" (euro sign: not alphabetic, three UTF-8 bytes).              *)
(***************************************************************************)
EXTENDS Integers, Sequences, FiniteSets, TLC

VARIABLES
    input,      \* the source buffer handed to Lexer::new
    lexer,      \* a Lexer driven directly by its caller (lexer.rs:14-19)
    stream,     \* the Tokens the calls of lexer.next_token returned, in order
    parser,     \* struct Parser: lexer, current_token, peek_token, errors
    stack,      \* the call stack of the parse functions, innermost frame first
    ret,        \* the value the last parse function returned to its caller
    status,     \* "running" | "returned" | "panicked" | "printed" | "lexing"
    printed,    \* the text printed for the buffer parsed before this one
    output      \* the lines written to stdout for the buffer parsed

vars == <<input, lexer, stream, parser, stack, ret, status, printed, output>>

(***************************************************************************)
(* Bounds of the model.                                                    *)
(***************************************************************************)
MaxChars == 3      \* longest raw character buffer given to a bare Lexer
MaxCalls == 5      \* most calls of next_token made on a bare Lexer
MaxLexemes == 3    \* longest free sequence of lexemes given to the Parser
MaxStatements == 2 \* most bind and return statements in one buffer

(***************************************************************************)
(* Characters.                                                             *)
(***************************************************************************)
NUL == "NUL"
EAcute == "U+00E9"
Euro == "U+20AC"

AsciiLetters == {"a","b","c","d","e","f","g","h","i","j","k","l","m","n","o",
                 "p","q","r","s","t","u","v","w","x","y","z",
                 "A","B","C","D","E","F","G","H","I","J","K","L","M","N","O",
                 "P","Q","R","S","T","U","V","W","X","Y","Z"}
AsciiDigits == {"0","1","2","3","4","5","6","7","8","9"}

\* char::len_utf8
Utf8Len(c) == IF c = EAcute THEN 2 ELSE IF c = Euro THEN 3 ELSE 1

\* char::is_alphabetic
IsAlphabetic(c) == c \in AsciiLetters \cup {EAcute}

\* char::is_ascii_digit
IsAsciiDigit(c) == c \in AsciiDigits

\* char::is_whitespace
IsWhitespace(c) == c \in {" ", "\t", "\n"}

RECURSIVE ByteLen(_)
\* String::len: the length of the buffer in bytes
ByteLen(s) == IF s = <<>> THEN 0 ELSE Utf8Len(Head(s)) + ByteLen(Tail(s))

\* the byte offset at which the i-th character (from 1) of s starts
ByteStart(s, i) == ByteLen(SubSeq(s, 1, i - 1))

\* str::is_char_boundary
IsCharBoundary(s, k) == \E i \in 1..(Len(s) + 1) : ByteStart(s, i) = k

\* s.chars().nth(n): the n-th character counted from 0, or absent
CharsNth(s, n) == IF n < Len(s) THEN <<s[n + 1]>> ELSE <<>>

\* &s[a..b]: a slice by byte offsets; it panics unless a <= b <= s.len() and
\* both offsets are character boundaries
SliceOk(s, a, b) ==
    /\ a <= b
    /\ b <= ByteLen(s)
    /\ IsCharBoundary(s, a)
    /\ IsCharBoundary(s, b)

Slice(s, a, b) ==
    LET first == CHOOSE i \in 1..(Len(s) + 1) : ByteStart(s, i) = a
        last == CHOOSE i \in 1..(Len(s) + 1) : ByteStart(s, i) = b
    IN SubSeq(s, first, last - 1)

(***************************************************************************)
(* Tokens (token.rs).                                                      *)
(***************************************************************************)
Token(token_type, literal) == [token_type |-> token_type, literal |-> literal]

NoToken == Token("", <<>>)

\* TokenType::lookup_ident
\* lookup_ident matching the start of the run, not the whole run
lookup_ident_ByPrefix(ident) ==
    LET Starts(w) == Len(ident) >= Len(w) /\ SubSeq(ident, 1, Len(w)) = w
    IN IF Starts(<<"d","e","f">>) THEN "Function"
       ELSE IF Starts(<<"v","a","r">>) THEN "Var"
       ELSE IF Starts(<<"t","r","u","e">>) THEN "True"
       ELSE IF Starts(<<"f","a","l","s","e">>) THEN "False"
       ELSE IF Starts(<<"i","f">>) THEN "If"
       ELSE IF Starts(<<"e","l","s","e">>) THEN "Else"
       ELSE IF Starts(<<"r","e","t">>) THEN "Ret"
       ELSE "Ident"

lookup_ident(ident) ==
    IF ident = <<"d","e","f">> THEN "Function"
    ELSE IF ident = <<"v","a","r">> THEN "Var"
    ELSE IF ident = <<"t","r","u","e">> THEN "True"
    ELSE IF ident = <<"f","a","l","s","e">> THEN "False"
    ELSE IF ident = <<"i","f">> THEN "If"
    ELSE IF ident = <<"e","l","s","e">> THEN "Else"
    ELSE IF ident = <<"r","e","t">> THEN "Ret"
    ELSE "Ident"

(***************************************************************************)
(* The Lexer (lexer.rs).  A lexer value carries the flag panicked: a       *)
(* panic inside any of its methods (a failed expect, a slice off a         *)
(* character boundary) unwinds out of next_token, and every operator       *)
(* below leaves a panicked lexer as it is.                                 *)
(***************************************************************************)
\* position and read_position only ever grow; once past the end of the
\* buffer their value is never looked at again except to compare it with
\* input.len(), so the model stops counting one past the end.
PastEnd(l) == ByteLen(l.input) + 1

Min(a, b) == IF a < b THEN a ELSE b

\* Lexer::read_char
read_char(l) ==
    IF l.panicked THEN l
    ELSE IF l.read_position >= ByteLen(l.input)
    THEN [l EXCEPT !.ch = NUL,
                   !.position = l.read_position,
                   !.read_position = Min(l.read_position + 1, PastEnd(l))]
    ELSE IF CharsNth(l.input, l.read_position) = <<>>
    THEN [l EXCEPT !.panicked = TRUE]        \* expect("Reading char failed")
    ELSE [l EXCEPT !.ch = CharsNth(l.input, l.read_position)[1],
                   !.position = l.read_position,
                   !.read_position = l.read_position + 1]

\* peek_char looking at the current character, not at the one after it
peek_char_AtPosition(l) == <<l.ch>>

\* Lexer::peek_char: the character, or <<>> when the expect panics
peek_char(l) ==
    IF l.read_position >= ByteLen(l.input) THEN <<NUL>>
    ELSE CharsNth(l.input, l.read_position)

\* Lexer::new
NewLexer(s) ==
    read_char([input |-> s, position |-> 0, read_position |-> 0, ch |-> NUL,
               panicked |-> FALSE])

\* Lexer::is_letter
is_letter(l) == IsAlphabetic(l.ch) \/ l.ch = "_"

RECURSIVE skip_whitespace(_)
\* Lexer::skip_whitespace
skip_whitespace(l) ==
    IF ~l.panicked /\ IsWhitespace(l.ch) THEN skip_whitespace(read_char(l)) ELSE l

RECURSIVE read_identifier_loop(_)
read_identifier_loop(l) ==
    IF ~l.panicked /\ is_letter(l) THEN read_identifier_loop(read_char(l)) ELSE l

RECURSIVE read_number_loop(_)
read_number_loop(l) ==
    IF ~l.panicked /\ IsAsciiDigit(l.ch) THEN read_number_loop(read_char(l)) ELSE l

\* the tail of read_identifier and read_number: the slice
\* self.input[position..self.position]
read_slice(l, l2) ==
    IF l2.panicked THEN [l |-> l2, literal |-> <<>>]
    ELSE IF ~SliceOk(l.input, l.position, l2.position)
    THEN [l |-> [l2 EXCEPT !.panicked = TRUE], literal |-> <<>>]
    ELSE [l |-> l2, literal |-> Slice(l.input, l.position, l2.position)]

\* Lexer::read_identifier
read_identifier(l) == read_slice(l, read_identifier_loop(l))

\* Lexer::read_number
read_number(l) == read_slice(l, read_number_loop(l))

\* the single-character tokens of the match in next_token
SingleCharType(c) ==
    CASE c = ";" -> "Semicolon"
      [] c = "(" -> "Lparen"
      [] c = ")" -> "Rparen"
      [] c = "," -> "Comma"
      [] c = "+" -> "Plus"
      [] c = "-" -> "Minus"
      [] c = "*" -> "Asterisk"
      [] c = "/" -> "Slash"
      [] c = "<" -> "Lt"
      [] c = ">" -> "Gt"
      [] c = "{" -> "Lbrace"
      [] c = "}" -> "Rbrace"
      [] OTHER -> ""

\* a call of next_token ends: the token it returns and the lexer it leaves;
\* when the lexer panicked inside the call no token is returned
Emit(l, token) ==
    IF l.panicked THEN [tok |-> NoToken, l |-> l] ELSE [tok |-> token, l |-> l]

\* the arms '=' and '!' of the match in next_token (lexer.rs:36-43, 50-57),
\* peek being the result of peek_char, and the read_char that ends next_token
TwoCharToken(l, peek, two, one) ==
    IF peek = <<>>
    THEN Emit([l EXCEPT !.panicked = TRUE], NoToken)  \* expect("Peeking char failed")
    ELSE IF peek = <<"=">>
    THEN Emit(read_char(read_char(l)), Token(two, <<l.ch, "=">>))
    ELSE Emit(read_char(l), Token(one, <<l.ch>>))

\* the arm of an identifier or keyword (lexer.rs:66-69), r being the result
\* of read_identifier
WordToken(r) == Emit(r.l, Token(lookup_ident(r.literal), r.literal))

\* the arm of an integer (lexer.rs:70-72), r being the result of read_number
NumberToken(r) == Emit(r.l, Token("Int", r.literal))

\* the match of next_token on self.ch (lexer.rs:35-79)
TokenAt(l) ==
    IF l.panicked THEN Emit(l, NoToken)
    ELSE IF l.ch = "=" THEN TwoCharToken(l, peek_char(l), "Eq", "Assign")
    ELSE IF l.ch = "!" THEN TwoCharToken(l, peek_char(l), "NotEq", "Bang")
    ELSE IF SingleCharType(l.ch) # ""
    THEN Emit(read_char(l), Token(SingleCharType(l.ch), <<l.ch>>))
    ELSE IF l.ch = NUL THEN Emit(read_char(l), Token("Eof", <<>>))
    ELSE IF is_letter(l) THEN WordToken(read_identifier(l))
    ELSE IF IsAsciiDigit(l.ch) THEN NumberToken(read_number(l))
    ELSE Emit(read_char(l), Token("Illegal", <<l.ch>>))

\* Lexer::next_token: the token and the lexer after the call
next_token(l) == TokenAt(skip_whitespace(l))

(***************************************************************************)
(* The AST (ast/mod.rs).  A node is a record tagged by kind; an            *)
(* Option<...> field holds the node, or NONE for Rust's None.              *)
(***************************************************************************)
NONE == [kind |-> "None"]

IsSome(v) == v # NONE

Program(statements) == [kind |-> "Program", statements |-> statements]

VarStatement(token, name, value) ==
    [kind |-> "VarStatement", token |-> token, name |-> name, value |-> value]

RetStatement(token, return_value) ==
    [kind |-> "RetStatement", token |-> token, return_value |-> return_value]

ExpressionStatement(token, expression) ==
    [kind |-> "ExpressionStatement", token |-> token, expression |-> expression]

BlockStatement(token, statements) ==
    [kind |-> "BlockStatement", token |-> token, statements |-> statements]

Identifier(token, value) ==
    [kind |-> "Identifier", token |-> token, value |-> value]

IntegerLiteral(token, value) ==
    [kind |-> "IntegerLiteral", token |-> token, value |-> value]

PrefixExpression(token, operator, right) ==
    [kind |-> "PrefixExpression", token |-> token, operator |-> operator,
     right |-> right]

InfixExpression(token, left, operator, right) ==
    [kind |-> "InfixExpression", token |-> token, left |-> left,
     operator |-> operator, right |-> right]

\* IfExpression with the two blocks in each other's place
IfExpression_BlocksSwapped(token, condition, consequence, alternative) ==
    [kind |-> "IfExpression", token |-> token, condition |-> condition,
     consequence |-> alternative, alternative |-> consequence]

IfExpression(token, condition, consequence, alternative) ==
    [kind |-> "IfExpression", token |-> token, condition |-> condition,
     consequence |-> consequence, alternative |-> alternative]

FunctionLiteral(token, parameters, body) ==
    [kind |-> "FunctionLiteral", token |-> token, parameters |-> parameters,
     body |-> body]

\* the Vec<Identifier> parse_function_parameters returns
CallExpression(token, function, arguments) ==
    [kind |-> "CallExpression", token |-> token, function |-> function,
     arguments |-> arguments]

Parameters(identifiers) == [kind |-> "Parameters", identifiers |-> identifiers]

(***************************************************************************)
(* The Parser (parser/mod.rs): precedences and handler tables.             *)
(***************************************************************************)
\* enum Precedence, ordered by its derived PartialOrd
Lowest == 0
Equals == 1
LessGreater == 2
Sum == 3
Product == 4
Prefix == 5
Call == 6

\* PRECEDENCES with the levels of the sums and of the products exchanged
PRECEDENCES_SumAboveProduct(token_type) ==
    CASE token_type = "Eq" -> Equals
      [] token_type = "NotEq" -> Equals
      [] token_type = "Lt" -> LessGreater
      [] token_type = "Gt" -> LessGreater
      [] token_type = "Plus" -> Product
      [] token_type = "Minus" -> Product
      [] token_type = "Slash" -> Sum
      [] token_type = "Asterisk" -> Sum
      [] OTHER -> Lowest

\* const PRECEDENCES, as the lookup peek_precedence and current_precedence
\* make in it: the precedence bound to a token type, Lowest when unbound
PRECEDENCES(token_type) ==
    CASE token_type = "Eq" -> Equals
      [] token_type = "NotEq" -> Equals
      [] token_type = "Lt" -> LessGreater
      [] token_type = "Gt" -> LessGreater
      [] token_type = "Plus" -> Sum
      [] token_type = "Minus" -> Sum
      [] token_type = "Slash" -> Product
      [] token_type = "Asterisk" -> Product
      [] OTHER -> Lowest

\* prefix_parse_fns with `(` registered as one more prefix operator
prefix_parse_fns_LparenAsOperator(token_type) ==
    CASE token_type = "Ident" -> "parse_identifier"
      [] token_type = "Int" -> "parse_integer_literal"
      [] token_type = "Bang" -> "parse_prefix_expression"
      [] token_type = "Minus" -> "parse_prefix_expression"
      [] token_type = "True" -> "parse_boolean"
      [] token_type = "False" -> "parse_boolean"
      [] token_type = "Lparen" -> "parse_prefix_expression"
      [] token_type = "If" -> "parse_if_expression"
      [] token_type = "Function" -> "parse_function_literal"
      [] OTHER -> ""

\* prefix_parse_fns as Parser::new fills it: the handler of a token type,
\* "" when none is registered
prefix_parse_fns(token_type) ==
    CASE token_type = "Ident" -> "parse_identifier"
      [] token_type = "Int" -> "parse_integer_literal"
      [] token_type = "Bang" -> "parse_prefix_expression"
      [] token_type = "Minus" -> "parse_prefix_expression"
      [] token_type = "True" -> "parse_boolean"
      [] token_type = "False" -> "parse_boolean"
      [] token_type = "Lparen" -> "parse_grouped_expression"
      [] token_type = "If" -> "parse_if_expression"
      [] token_type = "Function" -> "parse_function_literal"
      [] OTHER -> ""

\* infix_parse_fns as Parser::new fills it
\* infix_parse_fns without the registration of Slash
infix_parse_fns_WithoutSlash(token_type) ==
    IF token_type \in {"Plus", "Minus", "Asterisk", "Eq", "NotEq", "Lt", "Gt"}
    THEN "parse_infix_expression"
    ELSE ""

infix_parse_fns(token_type) ==
    IF token_type \in {"Plus", "Minus", "Slash", "Asterisk", "Eq", "NotEq",
                       "Lt", "Gt"}
    THEN "parse_infix_expression"
    ELSE ""

(***************************************************************************)
(* Parser methods that call no parse function: operators on the parser     *)
(* record.  A panic of the lexer leaves parser.lexer.panicked set, and     *)
(* every operator leaves such a parser as it is.                           *)
(***************************************************************************)
Panicked(p) == p.lexer.panicked

\* the two assignments of Parser::next_token, r being what the lexer returned
Shift(p, r) ==
    [p EXCEPT !.current_token = p.peek_token, !.peek_token = r.tok, !.lexer = r.l]

\* Parser::next_token
parser_next_token(p) == IF Panicked(p) THEN p ELSE Shift(p, next_token(p.lexer))

\* Parser::new, r1 and r2 being what the lexer returned to its two calls
MakeParser(r1, r2) ==
    [lexer |-> r2.l, current_token |-> r1.tok, peek_token |-> r2.tok,
     errors |-> <<>>]

SecondToken(r1) == MakeParser(r1, next_token(r1.l))

\* Parser::new: the two tokens are read from the lexer before the parser exists
NewParser(l) == SecondToken(next_token(l))

\* Parser::current_token_is
current_token_is(p, token_type) == p.current_token.token_type = token_type

\* Parser::peek_token_is
peek_token_is(p, token_type) == p.peek_token.token_type = token_type

\* Parser::peek_precedence
peek_precedence(p) == PRECEDENCES(p.peek_token.token_type)

\* Parser::current_precedence
current_precedence(p) == PRECEDENCES(p.current_token.token_type)

\* Parser::peek_error
peek_error_Prepends(p, token_type) ==
    [p EXCEPT !.errors = <<<<"expected next token to be ", token_type,
                             ", got ", p.peek_token.token_type,
                             " instead">>>> \o @]

\* Parser::peek_error
peek_error(p, token_type) ==
    [p EXCEPT !.errors = Append(@, <<"expected next token to be ", token_type,
                                     ", got ", p.peek_token.token_type,
                                     " instead">>)]

\* Parser::no_prefix_parse_fn_error
no_prefix_parse_fn_error(p, token_type) ==
    [p EXCEPT !.errors = Append(@, <<"no prefix parse function for ",
                                     token_type, " found">>)]

\* expect_peek consuming the lookahead also when it is not the expected one
expect_peek_ConsumesAnyway(p, token_type) ==
    IF Panicked(p) THEN [p |-> p, ok |-> FALSE]
    ELSE IF peek_token_is(p, token_type)
    THEN [p |-> parser_next_token(p), ok |-> TRUE]
    ELSE [p |-> parser_next_token(peek_error(p, token_type)), ok |-> FALSE]

\* Parser::expect_peek: the parser after the call and the returned bool
expect_peek(p, token_type) ==
    IF Panicked(p) THEN [p |-> p, ok |-> FALSE]
    ELSE IF peek_token_is(p, token_type)
    THEN [p |-> parser_next_token(p), ok |-> TRUE]
    ELSE [p |-> peek_error(p, token_type), ok |-> FALSE]

(***************************************************************************)
(* str::parse::<i64> on a run of ASCII digits.  The value is kept as its   *)
(* decimal digits without leading zeros; the parse fails when the number   *)
(* exceeds i64::MAX.                                                       *)
(***************************************************************************)
I64Max == <<"9","2","2","3","3","7","2","0","3","6","8","5","4","7","7","5",
            "8","0","7">>

DigitValue(c) == CHOOSE n \in 0..9 : ToString(n) = c

RECURSIVE StripZeros(_)
StripZeros(d) ==
    IF Len(d) > 1 /\ Head(d) = "0" THEN StripZeros(Tail(d)) ELSE d

RECURSIVE DigitsLeq(_, _)
\* d <= e for two digit runs of the same length
DigitsLeq(d, e) ==
    IF d = <<>> THEN TRUE
    ELSE IF DigitValue(Head(d)) < DigitValue(Head(e)) THEN TRUE
    ELSE IF DigitValue(Head(d)) > DigitValue(Head(e)) THEN FALSE
    ELSE DigitsLeq(Tail(d), Tail(e))

parse_i64(literal) ==
    LET d == StripZeros(literal)
    IN IF Len(d) < Len(I64Max) \/ (Len(d) = Len(I64Max) /\ DigitsLeq(d, I64Max))
       THEN [ok |-> TRUE, value |-> d]
       ELSE [ok |-> FALSE, value |-> <<>>]

(***************************************************************************)
(* The parse functions.  Each call of a parse function is a frame of       *)
(* stack; a frame records the function, the place pc at which it resumes    *)
(* when its callee returns, and its local variables.  An action runs the   *)
(* innermost function from its place to its next call or to its return.    *)
(***************************************************************************)
Frame(fn) ==
    [fn |-> fn, pc |-> "entry", token |-> NoToken, precedence |-> Lowest,
     operator |-> <<>>, name |-> NONE, left |-> NONE, condition |-> NONE,
     consequence |-> NONE, parameters |-> <<>>, identifiers |-> <<>>,
     statements |-> <<>>]

At(fn, pc) ==
    /\ status = "running"
    /\ stack # <<>>
    /\ Head(stack).fn = fn
    /\ Head(stack).pc = pc

\* the innermost function goes on: its parser is p, its frame becomes f and,
\* when callee is a frame, that function is called
Continue(p, f, callee) ==
    /\ parser' = p
    /\ IF Panicked(p)
       THEN status' = "panicked" /\ UNCHANGED <<stack, ret>>
       ELSE /\ status' = "running"
            /\ stack' = callee \o <<f>> \o Tail(stack)
            /\ ret' = NONE
    /\ UNCHANGED <<input, lexer, stream, printed, output>>

\* the innermost function returns value to its caller
Return(p, value) ==
    /\ parser' = p
    /\ IF Panicked(p)
       THEN status' = "panicked" /\ UNCHANGED <<stack, ret>>
       ELSE /\ status' = "running"
            /\ stack' = Tail(stack)
            /\ ret' = value
    /\ UNCHANGED <<input, lexer, stream, printed, output>>

\* Option::unwrap on None, or any other panic of the parser itself
Abort ==
    /\ status' = "panicked"
    /\ UNCHANGED <<input, lexer, stream, parser, stack, ret, printed, output>>

\* `if !self.expect_peek(..) { return None; }`, r being the result of
\* expect_peek: the function returns None, or goes on with the parser
Expecting(r, Then(_)) == IF ~r.ok THEN Return(r.p, NONE) ELSE Then(r.p)

\* the function goes on with the value v
With(v, Then(_)) == Then(v)

\* parse_program, the loop test (mod.rs:90-92, 97): at Eof the Program is
\* returned to the caller of the parser, otherwise parse_statement is called
ParseProgram ==
    /\ At("parse_program", "loop")
    /\ LET f == Head(stack)
       IN IF current_token_is(parser, "Eof")
          THEN /\ status' = "returned"
               /\ stack' = <<>>
               /\ ret' = Program(f.statements)
               /\ UNCHANGED <<input, lexer, stream, parser, printed, output>>
          ELSE Continue(parser, [f EXCEPT !.pc = "statement"],
                        <<Frame("parse_statement")>>)

RECURSIVE SkipToTerminator(_)
\* the parser advanced to the next `;`, or to the end of the input
SkipToTerminator(p) ==
    IF Panicked(p) \/ current_token_is(p, "Semicolon") \/ current_token_is(p, "Eof")
    THEN p
    ELSE SkipToTerminator(parser_next_token(p))

\* ParseProgramPush skipping the rest of a statement that failed, up to its
\* terminator
ParseProgramPush_Synchronizes ==
    /\ At("parse_program", "statement")
    /\ LET f == Head(stack)
       IN Continue(IF IsSome(ret) THEN parser_next_token(parser)
                   ELSE parser_next_token(SkipToTerminator(parser)),
                   [f EXCEPT !.pc = "loop",
                             !.statements = IF IsSome(ret) THEN Append(@, ret)
                                            ELSE @],
                   <<>>)

\* parse_program, the rest of the loop body (mod.rs:92-95)
ParseProgramPush ==
    /\ At("parse_program", "statement")
    /\ LET f == Head(stack)
       IN Continue(parser_next_token(parser),
                   [f EXCEPT !.pc = "loop",
                             !.statements = IF IsSome(ret) THEN Append(@, ret)
                                            ELSE @],
                   <<>>)

\* parse_statement (mod.rs:100-106): the match hands over to one of the
\* three statement parsers, whose result is its own
ParseStatement ==
    /\ At("parse_statement", "entry")
    /\ LET callee == CASE parser.current_token.token_type = "Var"
                            -> "parse_var_statement"
                       [] parser.current_token.token_type = "Ret"
                            -> "parse_ret_statement"
                       [] OTHER -> "parse_expression_statement"
       IN /\ stack' = <<Frame(callee)>> \o Tail(stack)
          /\ UNCHANGED <<input, lexer, stream, parser, ret, status, printed, output>>

\* parse_var_statement up to its loop (mod.rs:161-175)
ParseVarStatement ==
    /\ At("parse_var_statement", "entry")
    /\ Expecting(expect_peek(parser, "Ident"), LAMBDA p1 :
         Expecting(expect_peek(p1, "Assign"), LAMBDA p2 :
           Continue(p2,
                    [Head(stack) EXCEPT
                       !.pc = "skip",
                       !.token = parser.current_token,
                       !.name = Identifier(p1.current_token,
                                           p1.current_token.literal)],
                    <<>>)))

\* parse_var_statement, one test of its loop (mod.rs:177-185)
ParseVarStatementSkip ==
    /\ At("parse_var_statement", "skip")
    /\ LET f == Head(stack)
       IN IF ~current_token_is(parser, "Semicolon")
          THEN Continue(parser_next_token(parser), f, <<>>)
          ELSE Return(parser, VarStatement(f.token, f.name, NONE))

\* parse_ret_statement up to its loop (mod.rs:189-191)
ParseRetStatement ==
    /\ At("parse_ret_statement", "entry")
    /\ LET f == Head(stack)
       IN Continue(parser_next_token(parser),
                   [f EXCEPT !.pc = "skip", !.token = parser.current_token], <<>>)

\* parse_ret_statement, one test of its loop (mod.rs:194-201)
ParseRetStatementSkip ==
    /\ At("parse_ret_statement", "skip")
    /\ LET f == Head(stack)
       IN IF ~current_token_is(parser, "Semicolon")
          THEN Continue(parser_next_token(parser), f, <<>>)
          ELSE Return(parser, RetStatement(f.token, NONE))

\* parse_expression_statement up to its call (mod.rs:205-206)
ParseExpressionStatement ==
    /\ At("parse_expression_statement", "entry")
    /\ LET f == Head(stack)
       IN Continue(parser,
                   [f EXCEPT !.pc = "expression", !.token = parser.current_token],
                   <<[Frame("parse_expression") EXCEPT !.precedence = Lowest]>>)

\* parse_expression_statement after its call (mod.rs:206-212)
ParseExpressionStatementEnd ==
    /\ At("parse_expression_statement", "expression")
    /\ IF peek_token_is(parser, "Semicolon")
       THEN Return(parser_next_token(parser),
                   ExpressionStatement(Head(stack).token, ret))
       ELSE Return(parser, ExpressionStatement(Head(stack).token, ret))

\* ClimbOn with `<=` written for `<`
ClimbOn_NotStrict(p, precedence) ==
    /\ ~peek_token_is(p, "Semicolon")
    /\ precedence <= peek_precedence(p)

\* ClimbOn looking at the current token's precedence, not the lookahead's
ClimbOn_CurrentPrecedence(p, precedence) ==
    /\ ~peek_token_is(p, "Semicolon")
    /\ precedence < current_precedence(p)

\* the test of the climbing loop of parse_expression (mod.rs:370-371)
ClimbOn(p, precedence) ==
    /\ ~peek_token_is(p, "Semicolon")
    /\ precedence < peek_precedence(p)

\* parse_expression up to the call of the prefix handler (mod.rs:361-368)
ParseExpression ==
    /\ At("parse_expression", "entry")
    /\ LET f == Head(stack)
           prefix == prefix_parse_fns(parser.current_token.token_type)
       IN IF prefix = ""
          THEN Return(no_prefix_parse_fn_error(parser,
                                               parser.current_token.token_type),
                      NONE)
          ELSE Continue(parser, [f EXCEPT !.pc = "prefix"], <<Frame(prefix)>>)

\* parse_expression, the unwrap of the prefix handler's result (mod.rs:368)
ParseExpressionPrefix ==
    /\ At("parse_expression", "prefix")
    /\ LET f == Head(stack)
       IN IF ~IsSome(ret) THEN Abort
          ELSE Continue(parser, [f EXCEPT !.pc = "loop", !.left = ret], <<>>)

\* parse_expression, one test of the climbing loop (mod.rs:370-386)
ParseExpressionLoop ==
    /\ At("parse_expression", "loop")
    /\ LET f == Head(stack)
           infix_fn == infix_parse_fns(parser.peek_token.token_type)
       IN IF ClimbOn(parser, f.precedence)
          THEN IF infix_fn # ""
               THEN Continue(parser_next_token(parser), [f EXCEPT !.pc = "infix"],
                             <<[Frame(infix_fn) EXCEPT !.left = f.left]>>)
               ELSE Return(parser_next_token(parser), f.left)
          ELSE Return(parser, f.left)

\* parse_expression, the unwrap of the infix handler's result (mod.rs:380)
ParseExpressionInfix ==
    /\ At("parse_expression", "infix")
    /\ LET f == Head(stack)
       IN IF ~IsSome(ret) THEN Abort
          ELSE Continue(parser, [f EXCEPT !.pc = "loop", !.left = ret], <<>>)

\* parse_identifier (mod.rs:108-113)
ParseIdentifier ==
    /\ At("parse_identifier", "entry")
    /\ Return(parser, Identifier(parser.current_token,
                                 parser.current_token.literal))

\* parse_integer_literal (mod.rs:115-123)
ParseIntegerLiteral ==
    /\ At("parse_integer_literal", "entry")
    /\ LET r == parse_i64(parser.current_token.literal)
       IN IF r.ok
          THEN Return(parser, IntegerLiteral(parser.current_token, r.value))
          ELSE Return(parser, NONE)

\* bool::to_string
BoolToString(b) == IF b THEN <<"t","r","u","e">> ELSE <<"f","a","l","s","e">>

\* parse_boolean (mod.rs:215-220)
ParseBoolean ==
    /\ At("parse_boolean", "entry")
    /\ Return(parser, Identifier(parser.current_token,
                                 BoolToString(current_token_is(parser, "True"))))

\* PrefixOperandPrecedence with Lowest written for Prefix
PrefixOperandPrecedence_Lowest == Lowest

\* the precedence at which parse_prefix_expression parses its operand
\* (mod.rs:131)
PrefixOperandPrecedence == Prefix

\* parse_prefix_expression up to its call (mod.rs:126-131)
ParsePrefixExpression ==
    /\ At("parse_prefix_expression", "entry")
    /\ LET f == Head(stack)
       IN Continue(parser_next_token(parser),
                   [f EXCEPT !.pc = "right", !.token = parser.current_token,
                             !.operator = parser.current_token.literal],
                   <<[Frame("parse_expression")
                        EXCEPT !.precedence = PrefixOperandPrecedence]>>)

\* parse_prefix_expression after its call (mod.rs:131-139)
ParsePrefixExpressionEnd ==
    /\ At("parse_prefix_expression", "right")
    /\ LET f == Head(stack)
       IN IF IsSome(ret)
          THEN Return(parser, PrefixExpression(f.token, f.operator, ret))
          ELSE Return(parser, NONE)

\* parse_infix_expression up to its call (mod.rs:146-151)
ParseInfixExpression ==
    /\ At("parse_infix_expression", "entry")
    /\ LET f == Head(stack)
       IN Continue(parser_next_token(parser),
                   [f EXCEPT !.pc = "right", !.token = parser.current_token,
                             !.operator = parser.current_token.literal],
                   <<[Frame("parse_expression")
                        EXCEPT !.precedence = current_precedence(parser)]>>)

\* parse_infix_expression after its call: the unwrap (mod.rs:151-157)
ParseInfixExpressionEnd ==
    /\ At("parse_infix_expression", "right")
    /\ LET f == Head(stack)
       IN IF ~IsSome(ret) THEN Abort
          ELSE Return(parser, InfixExpression(f.token, f.left, f.operator, ret))

\* parse_grouped_expression up to its call (mod.rs:223-225)
ParseGroupedExpression ==
    /\ At("parse_grouped_expression", "entry")
    /\ LET f == Head(stack)
       IN Continue(parser_next_token(parser), [f EXCEPT !.pc = "exp"],
                   <<[Frame("parse_expression") EXCEPT !.precedence = Lowest]>>)

\* parse_grouped_expression after its call (mod.rs:225-231)
ParseGroupedExpressionEnd ==
    /\ At("parse_grouped_expression", "exp")
    /\ Expecting(expect_peek(parser, "Rparen"), LAMBDA p1 : Return(p1, ret))

\* parse_if_expression up to the parse of the condition (mod.rs:235-243)
ParseIfExpression ==
    /\ At("parse_if_expression", "entry")
    /\ Expecting(expect_peek(parser, "Lparen"), LAMBDA p1 :
         Continue(parser_next_token(p1),
                  [Head(stack) EXCEPT !.pc = "condition",
                                      !.token = parser.current_token],
                  <<[Frame("parse_expression") EXCEPT !.precedence = Lowest]>>))

\* parse_if_expression from the condition to the consequence (mod.rs:243-253)
ParseIfExpressionCondition ==
    /\ At("parse_if_expression", "condition")
    /\ Expecting(expect_peek(parser, "Rparen"), LAMBDA p1 :
         Expecting(expect_peek(p1, "Lbrace"), LAMBDA p2 :
           Continue(p2,
                    [Head(stack) EXCEPT !.pc = "consequence", !.condition = ret],
                    <<Frame("parse_block_statement")>>)))

\* parse_if_expression from the consequence on (mod.rs:253-271)
ParseIfExpressionConsequence ==
    /\ At("parse_if_expression", "consequence")
    /\ IF peek_token_is(parser, "Else")
       THEN Expecting(expect_peek(parser_next_token(parser), "Lbrace"), LAMBDA p1 :
              Continue(p1,
                       [Head(stack) EXCEPT !.pc = "alternative",
                                           !.consequence = ret],
                       <<Frame("parse_block_statement")>>))
       ELSE Return(parser, IfExpression(Head(stack).token, Head(stack).condition,
                                        ret, NONE))

\* parse_if_expression after the alternative (mod.rs:261-271)
ParseIfExpressionAlternative ==
    /\ At("parse_if_expression", "alternative")
    /\ LET f == Head(stack)
       IN Return(parser, IfExpression(f.token, f.condition, f.consequence, ret))

\* parse_function_literal up to the parameters (mod.rs:275-281)
ParseFunctionLiteral ==
    /\ At("parse_function_literal", "entry")
    /\ Expecting(expect_peek(parser, "Lparen"), LAMBDA p1 :
         Continue(p1,
                  [Head(stack) EXCEPT !.pc = "parameters",
                                      !.token = parser.current_token],
                  <<Frame("parse_function_parameters")>>))

\* parse_function_literal from the parameters to the body (mod.rs:281-287)
ParseFunctionLiteralParameters ==
    /\ At("parse_function_literal", "parameters")
    /\ Expecting(expect_peek(parser, "Lbrace"), LAMBDA p1 :
         Continue(p1,
                  [Head(stack) EXCEPT !.pc = "body",
                                      !.parameters = ret.identifiers],
                  <<Frame("parse_block_statement")>>))

\* parse_function_literal after the body (mod.rs:287-293)
ParseFunctionLiteralBody ==
    /\ At("parse_function_literal", "body")
    /\ LET f == Head(stack)
       IN Return(parser, FunctionLiteral(f.token, f.parameters, ret))

\* parse_function_parameters up to its loop (mod.rs:297-311)
ParseFunctionParameters ==
    /\ At("parse_function_parameters", "entry")
    /\ With(parser_next_token(parser), LAMBDA p1 :
         IF peek_token_is(parser, "Rparen")
         THEN Return(p1, Parameters(<<>>))
         ELSE Continue(p1,
                       [Head(stack) EXCEPT
                          !.pc = "loop",
                          !.identifiers =
                              <<Identifier(p1.current_token,
                                           p1.current_token.literal)>>],
                       <<>>))

\* ParseFunctionParametersLoop advancing once, not twice, past a comma
ParseFunctionParametersLoop_KeepsComma ==
    /\ At("parse_function_parameters", "loop")
    /\ IF peek_token_is(parser, "Comma")
       THEN With(parser_next_token(parser), LAMBDA p1 :
              Continue(p1,
                       [Head(stack) EXCEPT
                          !.identifiers =
                              Append(@, Identifier(p1.current_token,
                                                   p1.current_token.literal))],
                       <<>>))
       ELSE With(expect_peek(parser, "Rparen"), LAMBDA r :
              IF ~r.ok THEN Return(r.p, Parameters(<<>>))
              ELSE Return(r.p, Parameters(Head(stack).identifiers)))

\* parse_function_parameters, one test of its loop (mod.rs:313-329)
ParseFunctionParametersLoop ==
    /\ At("parse_function_parameters", "loop")
    /\ IF peek_token_is(parser, "Comma")
       THEN With(parser_next_token(parser_next_token(parser)), LAMBDA p1 :
              Continue(p1,
                       [Head(stack) EXCEPT
                          !.identifiers =
                              Append(@, Identifier(p1.current_token,
                                                   p1.current_token.literal))],
                       <<>>))
       ELSE With(expect_peek(parser, "Rparen"), LAMBDA r :
              IF ~r.ok THEN Return(r.p, Parameters(<<>>))
              ELSE Return(r.p, Parameters(Head(stack).identifiers)))

\* parse_block_statement up to its loop (mod.rs:333-338)
ParseBlockStatement ==
    /\ At("parse_block_statement", "entry")
    /\ LET f == Head(stack)
       IN Continue(parser_next_token(parser),
                   [f EXCEPT !.pc = "loop", !.token = parser.current_token], <<>>)

\* ParseBlockStatementLoop without the test for the end of the input
ParseBlockStatementLoop_OnlyRbrace ==
    /\ At("parse_block_statement", "loop")
    /\ LET f == Head(stack)
       IN IF ~current_token_is(parser, "Rbrace")
          THEN Continue(parser, [f EXCEPT !.pc = "statement"],
                        <<Frame("parse_statement")>>)
          ELSE Return(parser, BlockStatement(f.token, f.statements))

\* parse_block_statement, the loop test (mod.rs:340-343, 349)
ParseBlockStatementLoop ==
    /\ At("parse_block_statement", "loop")
    /\ LET f == Head(stack)
       IN IF ~current_token_is(parser, "Rbrace") /\ ~current_token_is(parser, "Eof")
          THEN Continue(parser, [f EXCEPT !.pc = "statement"],
                        <<Frame("parse_statement")>>)
          ELSE Return(parser, BlockStatement(f.token, f.statements))

\* parse_block_statement, the rest of the loop body (mod.rs:343-346)
ParseBlockStatementPush ==
    /\ At("parse_block_statement", "statement")
    /\ LET f == Head(stack)
       IN Continue(parser_next_token(parser),
                   [f EXCEPT !.pc = "loop",
                             !.statements = IF IsSome(ret) THEN Append(@, ret)
                                            ELSE @],
                   <<>>)

\* the parse functions, each run from one call or return to the next
ParserStep ==
    \/ ParseProgram
    \/ ParseProgramPush
    \/ ParseStatement
    \/ ParseVarStatement
    \/ ParseVarStatementSkip
    \/ ParseRetStatement
    \/ ParseRetStatementSkip
    \/ ParseExpressionStatement
    \/ ParseExpressionStatementEnd
    \/ ParseExpression
    \/ ParseExpressionPrefix
    \/ ParseExpressionLoop
    \/ ParseExpressionInfix
    \/ ParseIdentifier
    \/ ParseIntegerLiteral
    \/ ParseBoolean
    \/ ParsePrefixExpression
    \/ ParsePrefixExpressionEnd
    \/ ParseInfixExpression
    \/ ParseInfixExpressionEnd
    \/ ParseGroupedExpression
    \/ ParseGroupedExpressionEnd
    \/ ParseIfExpression
    \/ ParseIfExpressionCondition
    \/ ParseIfExpressionConsequence
    \/ ParseIfExpressionAlternative
    \/ ParseFunctionLiteral
    \/ ParseFunctionLiteralParameters
    \/ ParseFunctionLiteralBody
    \/ ParseFunctionParameters
    \/ ParseFunctionParametersLoop
    \/ ParseBlockStatement
    \/ ParseBlockStatementLoop
    \/ ParseBlockStatementPush

(***************************************************************************)
(* Node::string (ast/mod.rs): the canonical text of a node.                *)
(***************************************************************************)
RECURSIVE JoinWith(_, _)
\* [String]::join
JoinWith(strings, sep) ==
    IF strings = <<>> THEN <<>>
    ELSE IF Len(strings) = 1 THEN Head(strings)
    ELSE Head(strings) \o sep \o JoinWith(Tail(strings), sep)

\* FunctionLiteral_string with one space between `)` and the body
FunctionLiteral_string_SpaceBeforeBody(token_literal, params, body) ==
    token_literal \o <<"(">> \o JoinWith(params, <<",", " ">>) \o <<")", " ">> \o body

\* FunctionLiteral::string (ast/mod.rs:335-351), of the texts of its parts
FunctionLiteral_string(token_literal, params, body) ==
    token_literal \o <<"(">> \o JoinWith(params, <<",", " ">>) \o <<")">> \o body

RECURSIVE String(_)
String(node) ==
    LET Opt(v) == IF IsSome(v) THEN String(v) ELSE <<>>
        Each(nodes) == [i \in 1..Len(nodes) |-> String(nodes[i])]
    IN CASE node.kind \in {"Program", "BlockStatement"} ->
              JoinWith(Each(node.statements), <<>>)
         [] node.kind = "VarStatement" ->
              node.token.literal \o <<" ">> \o node.name.value
                  \o <<" ", "=", " ">> \o Opt(node.value) \o <<";">>
         [] node.kind = "RetStatement" ->
              node.token.literal \o <<" ">> \o Opt(node.return_value) \o <<";">>
         [] node.kind = "ExpressionStatement" -> Opt(node.expression)
         [] node.kind = "Identifier" -> node.value
         [] node.kind = "IntegerLiteral" -> node.token.literal
         [] node.kind = "PrefixExpression" ->
              <<"(">> \o node.operator \o Opt(node.right) \o <<")">>
         [] node.kind = "InfixExpression" ->
              <<"(">> \o Opt(node.left) \o <<" ">> \o node.operator \o <<" ">>
                  \o Opt(node.right) \o <<")">>
         [] node.kind = "IfExpression" ->
              <<"i", "f", " ">> \o Opt(node.condition) \o <<" ">>
                  \o Opt(node.consequence)
                  \o (IF IsSome(node.alternative)
                      THEN <<"e", "l", "s", "e", " ">> \o String(node.alternative)
                      ELSE <<>>)
         [] node.kind = "FunctionLiteral" ->
              FunctionLiteral_string(node.token.literal, Each(node.parameters),
                                     Opt(node.body))
         [] node.kind = "CallExpression" ->
              Opt(node.function) \o <<"(">>
                  \o JoinWith(Each(node.arguments), <<",", " ">>) \o <<")">>

(***************************************************************************)
(* Source buffers.  A buffer for the parser is written as a sequence of    *)
(* lexemes and is their text joined by single spaces.                      *)
(***************************************************************************)
Text(lexemes) == JoinWith(lexemes, <<" ">>)

RECURSIVE SeqsUpTo(_, _)
\* the sequences of at most n elements of S
SeqsUpTo(S, n) ==
    IF n = 0 THEN {<<>>}
    ELSE LET shorter == SeqsUpTo(S, n - 1)
         IN shorter \cup {Append(q, x) : q \in shorter, x \in S}

WVar == <<"v","a","r">>
WRet == <<"r","e","t">>
WIf == <<"i","f">>
WElse == <<"e","l","s","e">>
WDef == <<"d","e","f">>
WTrue == <<"t","r","u","e">>

\* the characters a bare lexer is fed
LexerChars == {"=", "!", "a", "_", "7", " ", ";", "+", "#", NUL, EAcute, Euro}

LexerBuffers == SeqsUpTo(LexerChars, MaxChars)

\* words a bare lexer is fed: the reserved spellings, and runs of letters
\* and underscores that start with, end with or hold one
WordBuffers ==
    {WDef, WVar, WTrue, <<"f","a","l","s","e">>, WIf, WElse, WRet,
     <<"i","f","f">>, <<"v","a","r","i","a","b","l","e">>, <<"r","e","t","_">>,
     <<"_","i","f">>, <<"i">>, <<"d","e">>, <<"D","e","f">>, <<"e","l","s","e","i","f">>,
     <<"i","f","7">>, <<"i","f"," ","x">>, <<"r","e","t",";">>, <<"t","r","u","e","!">>}

\* the lexemes of the free buffers
FreeLexemes ==
    {WVar, WRet, WIf, <<"x">>, <<"5">>, <<"+">>, <<"!">>, <<";">>, <<"(">>}

FreeBuffers == {Text(q) : q \in SeqsUpTo(FreeLexemes, MaxLexemes)}

\* the binary operators, by lexeme
BinaryOperators ==
    {<<"+">>, <<"-">>, <<"*">>, <<"/">>, <<"<">>, <<">">>, <<"=", "=">>,
     <<"!", "=">>}

\* the prefix operators, by lexeme
PrefixOperators == {<<"!">>, <<"-">>}

\* a op1 b op2 c
ChainLexemes(op1, op2) == <<<<"a">>, op1, <<"b">>, op2, <<"c">>>>

ChainBuffers ==
    {Text(ChainLexemes(op1, op2)) : op1 \in BinaryOperators, op2 \in BinaryOperators}

\* p x b y
PrefixInfixLexemes(p, b) == <<p, <<"x">>, b, <<"y">>>>

\* p q a
PrefixPrefixLexemes(p, q) == <<p, q, <<"a">>>>

PrefixBuffers ==
    {Text(PrefixInfixLexemes(p, b)) : p \in PrefixOperators, b \in BinaryOperators}
        \cup {Text(PrefixPrefixLexemes(p, q)) : p \in PrefixOperators,
                                                q \in PrefixOperators}

\* ( a op b )
GroupedLexemes(op) == <<<<"(">>, <<"a">>, op, <<"b">>, <<")">>>>

\* a op1 ( b op2 c ) op3 d
NestedGroupLexemes(op1, op2, op3) ==
    <<<<"a">>, op1, <<"(">>, <<"b">>, op2, <<"c">>, <<")">>, op3, <<"d">>>>

GroupedBuffers == {Text(GroupedLexemes(op)) : op \in BinaryOperators}

NestedGroupBuffers ==
    {Text(NestedGroupLexemes(op1, op2, op3)) :
         op1 \in BinaryOperators, op2 \in BinaryOperators, op3 \in BinaryOperators}

\* callee ( arguments ), the arguments separated by commas
CallLexemes(callee, arguments) ==
    <<callee, <<"(">>>> \o JoinWith(arguments, <<<<",">>>>) \o <<<<")">>>>

WAdd == <<"a","d","d">>

\* the argument lists of the calls: (), (x), (1, 2 * 3)
CallArguments ==
    {<<>>,
     <<<<<<"x">>>>>>,
     <<<<<<"1">>>>, <<<<"2">>, <<"*">>, <<"3">>>>>>}

CallBuffers == {Text(CallLexemes(WAdd, arguments)) : arguments \in CallArguments}

\* the value expressions of the bind and return statements
ValueLexemes ==
    {<<<<"5">>>>,
     <<<<"a">>, <<"+">>, <<"b">>>>,
     <<WDef, <<"(">>, <<"x">>, <<")">>, <<"{">>, <<"x">>, <<";">>, <<"}">>>>}

\* a statement is its keyword, its value and whether it ends in `;`
StatementShapes ==
    [keyword : {WVar, WRet}, value : ValueLexemes, terminated : BOOLEAN]

StatementLexemes(st) ==
    (IF st.keyword = WVar THEN <<WVar, <<"x">>, <<"=">>>> ELSE <<WRet>>)
        \o st.value \o (IF st.terminated THEN <<<<";">>>> ELSE <<>>)

RECURSIVE Flatten(_)
Flatten(seqs) == IF seqs = <<>> THEN <<>> ELSE Head(seqs) \o Flatten(Tail(seqs))

StatementLists == SeqsUpTo(StatementShapes, MaxStatements) \ {<<>>}

StatementsText(sts) ==
    Text(Flatten([i \in 1..Len(sts) |-> StatementLexemes(sts[i])]))

StatementBuffers == {StatementsText(sts) : sts \in StatementLists}

\* the three malformed bind statements of test_parser_errors
MalformedBinds ==
    <<<<WVar, <<"x">>, <<"5">>, <<";">>>>,
      <<WVar, <<"=">>, <<"1", "0">>, <<";">>>>,
      <<WVar, <<"8", "3", "8", "3", "8", "3">>, <<";">>>>>>

\* sequences of malformed bind statements, by their places in MalformedBinds
MalformedLists ==
    (SeqsUpTo(DOMAIN MalformedBinds, MaxStatements) \ {<<>>}) \cup {<<1, 2, 3>>}

MalformedText(l) == Text(Flatten([i \in 1..Len(l) |-> MalformedBinds[l[i]]]))

MalformedBuffers == {MalformedText(l) : l \in MalformedLists}

\* i64::MAX + 1, in digits
TooBig == <<"9","2","2","3","3","7","2","0","3","6","8","5","4","7","7","5",
            "8","0","8">>

\* an integer that does not fit i64, alone and before a further statement
OverflowBuffers ==
    {Text(<<TooBig>>),
     Text(<<TooBig, <<";">>>>),
     Text(<<TooBig, <<";">>, <<"x">>, <<";">>>>)}

\* expressions that reach a token with no prefix handler: at their start, as
\* the operand of a prefix operator, as the right operand of an infix one
NoPrefixLexemes ==
    {<<<<"=">>>>, <<<<")">>>>, <<<<"!">>>>, <<<<"5">>, <<"+">>>>}

\* such an expression as a statement, before the well-formed statement `x ;`
NoPrefixText(e) == Text(e \o <<<<";">>, <<"x">>, <<";">>>>)

NoPrefixBuffers == {NoPrefixText(e) : e \in NoPrefixLexemes}

\* `#`, which starts no token, as an expression statement and as the value
\* of a bind and of a return statement
IllegalBuffers ==
    {Text(<<<<"#">>, <<";">>>>),
     Text(<<WVar, <<"x">>, <<"=">>, <<"#">>, <<";">>>>),
     Text(<<WRet, <<"#">>, <<";">>>>)}

\* if ( x op y ) { x }, and the same followed by else { y }
IfLexemes(op, else) ==
    <<WIf, <<"(">>, <<"x">>, op, <<"y">>, <<")">>, <<"{">>, <<"x">>, <<"}">>>>
        \o (IF else THEN <<WElse, <<"{">>, <<"y">>, <<"}">>>> ELSE <<>>)

IfBuffers == {Text(IfLexemes(op, else)) : op \in BinaryOperators, else \in BOOLEAN}

\* what stands before a block: `if ( c )` or `def ( )`
BlockHeads == {<<WIf, <<"(">>, <<"c">>, <<")">>>>, <<WDef, <<"(">>, <<")">>>>}

\* the statements of a block, each a sequence of lexemes
BlockBodies ==
    {<<>>,
     <<<<<<"x">>>>>>,
     <<<<<<"x">>, <<";">>>>, <<<<"y">>>>>>,
     <<<<<<"x">>, <<";">>>>, <<<<"y">>, <<";">>>>>>,
     <<<<WRet, <<"x">>, <<";">>>>, <<<<"y">>>>>>}

\* head { body, closed by } or not
BlockLexemes(head, body, closed) ==
    head \o <<<<"{">>>> \o Flatten(body) \o (IF closed THEN <<<<"}">>>> ELSE <<>>)

\* if ( c ) { if ( c ) { x } y, closed by } or not
NestedBlockLexemes(closed) ==
    <<WIf, <<"(">>, <<"c">>, <<")">>, <<"{">>, WIf, <<"(">>, <<"c">>, <<")">>,
      <<"{">>, <<"x">>, <<"}">>, <<"y">>>> \o (IF closed THEN <<<<"}">>>> ELSE <<>>)

BlockBuffers ==
    {Text(BlockLexemes(head, body, closed)) :
         head \in BlockHeads, body \in BlockBodies, closed \in BOOLEAN}
        \cup {Text(NestedBlockLexemes(closed)) : closed \in BOOLEAN}

\* the names of the parameters of test_function_parameter_parsing
ParameterNames == <<<<"x">>, <<"y">>, <<"z">>>>

\* p1 , p2 , ... , pn
RECURSIVE CommaList(_)
CommaList(names) ==
    IF names = <<>> THEN <<>>
    ELSE IF Len(names) = 1 THEN names
    ELSE <<Head(names), <<",">>>> \o CommaList(Tail(names))

\* def ( names ) { } ;
DefLexemes(names) ==
    <<WDef, <<"(">>>> \o CommaList(names) \o <<<<")">>, <<"{">>, <<"}">>, <<";">>>>

\* def ( names, and lexeme after in place of the closing parenthesis
UnclosedDefLexemes(names, after) ==
    <<WDef, <<"(">>>> \o CommaList(names) \o after

\* what follows an unclosed parameter list, with the kind of its first token
UnclosedTails ==
    {[after |-> <<<<"{">>, <<"}">>>>, actual |-> "Lbrace"],
     [after |-> <<<<"y">>, <<")">>, <<"{">>, <<"}">>>>, actual |-> "Ident"],
     [after |-> <<>>, actual |-> "Eof"]}

DefBuffers ==
    {Text(DefLexemes(SubSeq(ParameterNames, 1, n))) : n \in 0..Len(ParameterNames)}
        \cup {Text(UnclosedDefLexemes(SubSeq(ParameterNames, 1, n), t.after)) :
                  n \in 1..Len(ParameterNames), t \in UnclosedTails}

\* a op1 b ; - c op2 d
TerminatedLexemes(op1, op2) ==
    <<<<"a">>, op1, <<"b">>, <<";">>, <<"-">>, <<"c">>, op2, <<"d">>>>

TerminatedBuffers ==
    {Text(TerminatedLexemes(op1, op2)) :
         op1 \in BinaryOperators, op2 \in BinaryOperators}

\* lexemes that are no identifier, written where a parameter is expected
NotIdentifiers == {<<"1">>, WIf, <<"+">>, WTrue}

\* def ( w ) { } and def ( w , v ) { }
BadParameterBuffers ==
    {Text(<<WDef, <<"(">>, w, <<")">>, <<"{">>, <<"}">>>>) : w \in NotIdentifiers}
        \cup {Text(<<WDef, <<"(">>, <<"1">>, <<",">>, <<"2">>, <<")">>, <<"{">>, <<"}">>>>),
              Text(<<WDef, <<"(">>, <<"x">>, <<",">>, <<"2">>, <<")">>, <<"{">>, <<"}">>>>)}

\* inputs of the tests of parser/mod.rs, and one buffer that is not ASCII
SampleBuffers ==
    {Text(<<WIf, <<"(">>, <<"x">>, <<"<">>, <<"y">>, <<")">>, <<"{">>, <<"x">>,
            <<"}">>>>),
     Text(<<WIf, <<"(">>, <<"x">>, <<"<">>, <<"y">>, <<")">>, <<"{">>, <<"x">>,
            <<"}">>, WElse, <<"{">>, <<"y">>, <<"}">>>>),
     Text(<<WDef, <<"(">>, <<"x">>, <<",">>, <<"y">>, <<")">>, <<"{">>, <<"x">>,
            <<"+">>, <<"y">>, <<";">>, <<"}">>>>),
     Text(<<WDef, <<"(">>, <<")">>, <<"{">>, <<"}">>, <<";">>>>),
     Text(<<<<"!">>, <<"(">>, WTrue, <<"=", "=">>, WTrue, <<")">>>>),
     Text(<<<<"3">>, <<"+">>, <<"4">>, <<";">>, <<"-">>, <<"5">>, <<"*">>,
            <<"5">>>>),
     Text(<<<<"x">>, <<"+">>, <<Euro>>, <<";">>>>)}

ParserBuffers ==
    FreeBuffers \cup ChainBuffers \cup PrefixBuffers \cup StatementBuffers
        \cup SampleBuffers \cup GroupedBuffers \cup NestedGroupBuffers
        \cup CallBuffers \cup MalformedBuffers \cup OverflowBuffers
        \cup NoPrefixBuffers \cup IllegalBuffers \cup IfBuffers \cup BlockBuffers
        \cup DefBuffers \cup TerminatedBuffers \cup BadParameterBuffers

(***************************************************************************)
(* The parser run on one buffer: Parser::new(Lexer::new(input)) and then   *)
(* parse_program.                                                          *)
(***************************************************************************)
Init ==
    /\ input \in ParserBuffers
    /\ lexer = NewLexer(input)
    /\ stream = <<>>
    /\ parser = NewParser(NewLexer(input))
    /\ stack = <<[Frame("parse_program") EXCEPT !.pc = "loop"]>>
    /\ ret = NONE
    /\ status = IF Panicked(parser) THEN "panicked" ELSE "running"
    /\ printed = NONE
    /\ output = <<>>

\* the text println! writes
Printed(text) == [kind |-> "Printed", text |-> text]

\* the three lines print_parser_errors writes first (repl/mod.rs:33-35); the
\* wave is U+1F30A and the second line starts with Japanese text
Banner ==
    <<<<"Woops! U+1F30A Something went wrong U+1F30A">>,
      <<"U+30A8 U+30E9 U+30FC ... (An error occurred!)">>,
      <<" parser errors:">>>>

\* Repl::print_parser_errors: the lines written
print_parser_errors(errors) ==
    Banner \o [i \in 1..Len(errors) |-> <<"\t">> \o errors[i]]

\* ReplOutput without the `continue` after print_parser_errors
ReplOutput_NoContinue ==
    /\ status = "returned"
    /\ output' = (IF parser.errors # <<>> THEN print_parser_errors(parser.errors)
                  ELSE <<>>) \o <<String(ret)>>
    /\ status' = "printed"
    /\ UNCHANGED <<input, lexer, stream, parser, stack, ret, printed>>

\* Repl::start after parse_program has returned (repl/mod.rs:23-29): the
\* diagnostics, or the text of the Program
ReplOutput ==
    /\ status = "returned"
    /\ output' = IF parser.errors # <<>> THEN print_parser_errors(parser.errors)
                 ELSE <<String(ret)>>
    /\ status' = "printed"
    /\ UNCHANGED <<input, lexer, stream, parser, stack, ret, printed>>

\* Repl::start from read_line to the call of parse_program
\* (repl/mod.rs:17-23) on the line text
ReadLine(text) ==
    With(NewParser(NewLexer(text)), LAMBDA p :
      /\ input' = text
      /\ lexer' = NewLexer(text)
      /\ parser' = p
      /\ stack' = <<[Frame("parse_program") EXCEPT !.pc = "loop"]>>
      /\ ret' = NONE
      /\ status' = IF Panicked(p) THEN "panicked" ELSE "running"
      /\ output' = <<>>
      /\ UNCHANGED stream)

\* the Program of one expression statement, parsed with no diagnostic, has
\* been printed (repl/mod.rs:29) and the printed line is the next line read
Reparse ==
    /\ status = "printed"
    /\ printed = NONE
    /\ parser.errors = <<>>
    /\ Len(ret.statements) = 1
    /\ ret.statements[1].kind = "ExpressionStatement"
    /\ IsSome(ret.statements[1].expression)
    /\ printed' = Printed(output[1])
    /\ ReadLine(output[1])

\* the lines read after the diagnostics of a line have been printed
NextLines == {<<"x">>}

\* the diagnostics have been printed and the loop continues
\* (repl/mod.rs:24-27) with the next line
ReplContinue ==
    /\ status = "printed"
    /\ parser.errors # <<>>
    /\ UNCHANGED printed
    /\ \E text \in NextLines : ReadLine(text)

Next == ParserStep \/ ReplOutput \/ Reparse \/ ReplContinue

Spec == Init /\ [][Next]_vars

(***************************************************************************)
(* A lexer driven on its own: Lexer::new(input) and then next_token again  *)
(* and again.                                                              *)
(***************************************************************************)
InitLexer ==
    /\ input \in LexerBuffers \cup WordBuffers
    /\ lexer = NewLexer(input)
    /\ stream = <<>>
    /\ parser = NewParser(NewLexer(<<>>))
    /\ stack = <<>>
    /\ ret = NONE
    /\ status = "lexing"
    /\ printed = NONE
    /\ output = <<>>

\* one call of lexer.next_token by the caller, r being what it returns: a
\* call that panics returns no token
Called(r) ==
    /\ lexer' = r.l
    /\ stream' = IF r.l.panicked THEN stream ELSE Append(stream, r.tok)

LexerNextToken ==
    /\ status = "lexing"
    /\ ~lexer.panicked
    /\ Len(stream) < MaxCalls
    /\ Called(next_token(lexer))
    /\ UNCHANGED <<input, parser, stack, ret, status, printed, output>>

NextLexer == LexerNextToken

SpecLexer == InitLexer /\ [][NextLexer]_vars

(***************************************************************************)
(* What the properties below speak of.                                     *)
(***************************************************************************)
Returned == status = "returned"

\* the statements of the Program parse_program returned
Statements == ret.statements

\* the AST of the identifier or integer written w, and of operators applied
\* to operands, as section 3 of the specification describes the nodes
Operand(w) ==
    IF IsAsciiDigit(w[1]) THEN IntegerLiteral(Token("Int", w), w)
    ELSE Identifier(Token("Ident", w), w)

OperatorToken(op) ==
    Token(CASE op = <<"+">> -> "Plus"
            [] op = <<"-">> -> "Minus"
            [] op = <<"*">> -> "Asterisk"
            [] op = <<"/">> -> "Slash"
            [] op = <<"<">> -> "Lt"
            [] op = <<">">> -> "Gt"
            [] op = <<"=", "=">> -> "Eq"
            [] op = <<"!", "=">> -> "NotEq"
            [] op = <<"!">> -> "Bang",
          op)

InfixOf(left, op, right) == InfixExpression(OperatorToken(op), left, op, right)

PrefixOf(op, right) == PrefixExpression(OperatorToken(op), op, right)

\* the level of a binary operator in the binding table of the specification
Level(op) ==
    CASE op \in {<<"=", "=">>, <<"!", "=">>} -> 1
      [] op \in {<<"<">>, <<">">>} -> 2
      [] op \in {<<"+">>, <<"-">>} -> 3
      [] op \in {<<"*">>, <<"/">>} -> 4

\* the one expression statement a buffer that is one expression parses to
OneExpression(first, expression) ==
    <<ExpressionStatement(first, expression)>>

RECURSIVE Complete(_)
\* no Option field of the node, or of a node below it, is None
Complete(node) ==
    LET All(nodes) == \A i \in 1..Len(nodes) : Complete(nodes[i])
    IN /\ IsSome(node)
       /\ CASE node.kind \in {"Program", "BlockStatement"} -> All(node.statements)
            [] node.kind = "VarStatement" -> Complete(node.value)
            [] node.kind = "RetStatement" -> Complete(node.return_value)
            [] node.kind = "ExpressionStatement" -> Complete(node.expression)
            [] node.kind = "PrefixExpression" -> Complete(node.right)
            [] node.kind = "InfixExpression" ->
                 Complete(node.left) /\ Complete(node.right)
            [] node.kind = "IfExpression" ->
                 /\ Complete(node.condition)
                 /\ Complete(node.consequence)
                 /\ IsSome(node.alternative) => Complete(node.alternative)
            [] node.kind = "FunctionLiteral" -> Complete(node.body)
            [] OTHER -> TRUE

(***************************************************************************)
(* C1.  parse_program never fails outright: whatever the buffer, no parse  *)
(* function aborts (panics); every failure is a diagnostic and an absent   *)
(* result.                                                                 *)
(***************************************************************************)
C1_NeverAborts == status # "panicked"

(***************************************************************************)
(* C2.  parse_program terminates on every buffer, whether or not the bind  *)
(* and return statements carry their trailing `;`.  parse_program is       *)
(* deterministic, so it terminates only if it never stands where a loop's  *)
(* test holds and the loop's body changes nothing: from there it runs for  *)
(* ever.                                                                   *)
(***************************************************************************)
SkipLoopSpins ==
    /\ status = "running"
    /\ Head(stack).pc = "skip"
    /\ ~current_token_is(parser, "Semicolon")
    /\ parser_next_token(parser) = parser

C2_ParseProgramTerminates == ~SkipLoopSpins

(***************************************************************************)
(* C3.  Tokenizing to exhaustion terminates with Eof: the calls of         *)
(* next_token do not come to an end before one of them has returned an     *)
(* Eof token, and a call made on an exhausted lexer returns Eof again.     *)
(***************************************************************************)
TokenTypes == {stream[i].token_type : i \in 1..Len(stream)}

\* no character of the buffer is left to read
Exhausted(l) == l.ch = NUL /\ l.position >= ByteLen(l.input)

C3_ReachesEof ==
    /\ lexer.panicked => "Eof" \in TokenTypes
    /\ (Exhausted(lexer) /\ ~lexer.panicked) => next_token(lexer).tok.token_type = "Eof"

(***************************************************************************)
(* C4.  The tokenizer never fails: on every UTF-8 buffer, every call of    *)
(* next_token returns a token, and an Illegal token carries exactly the    *)
(* one character that starts no token.                                     *)
(***************************************************************************)
C4_LexerNeverFails ==
    /\ ~lexer.panicked
    /\ \A i \in 1..Len(stream) :
           stream[i].token_type = "Illegal" => Len(stream[i].literal) = 1

(***************************************************************************)
(* C5.  The AST is complete or flagged: when parse_program returns with an *)
(* empty diagnostics list, no node of the Program has an absent part.      *)
(***************************************************************************)
C5_CompleteOrFlagged ==
    (Returned /\ parser.errors = <<>>) => Complete(ret)

(***************************************************************************)
(* C6.  A bind statement `var x = <expr>;` parses to a VariableBind node   *)
(* with name x whose value is the AST of <expr>, parsed at Lowest          *)
(* precedence.                                                             *)
(***************************************************************************)
BindValues == {<<<<"5">>>>, <<<<"a">>, <<"+">>, <<"b">>>>}

ValueAst(v) ==
    IF Len(v) = 1 THEN Operand(v[1])
    ELSE InfixOf(Operand(v[1]), v[2], Operand(v[3]))

C6_BindHoldsValue ==
    Returned =>
        \A v \in BindValues :
            input = Text(<<WVar, <<"x">>, <<"=">>>> \o v \o <<<<";">>>>)
                => Statements = <<VarStatement(Token("Var", WVar), Operand(<<"x">>),
                                               ValueAst(v))>>

(***************************************************************************)
(* C7.  A buffer of n well-formed bind or return statements, each ended by *)
(* `;`, parses to exactly n statements in source order, each with its      *)
(* keyword as token literal, and records no diagnostic.                    *)
(***************************************************************************)
C7_OneStatementEach ==
    Returned =>
        \A sts \in StatementLists :
            ((\A i \in 1..Len(sts) : sts[i].terminated) /\ input = StatementsText(sts))
                => /\ Len(Statements) = Len(sts)
                   /\ \A i \in 1..Len(sts) :
                          Statements[i].token.literal = sts[i].keyword
                   /\ parser.errors = <<>>

(***************************************************************************)
(* C8.  Chains of one precedence level are left-associative: for binary    *)
(* operators op1, op2 of the same level, `a op1 b op2 c` parses to         *)
(* Infix(Infix(a, op1, b), op2, c), whose text is `((a op1 b) op2 c)`.     *)
(***************************************************************************)
C8_LeftAssociative ==
    Returned =>
        \A op1 \in BinaryOperators, op2 \in BinaryOperators :
            (Level(op1) = Level(op2) /\ input = Text(ChainLexemes(op1, op2)))
                => /\ Statements =
                          OneExpression(Token("Ident", <<"a">>),
                              InfixOf(InfixOf(Operand(<<"a">>), op1, Operand(<<"b">>)),
                                      op2, Operand(<<"c">>)))
                   /\ String(ret) = <<"(", "(", "a", " ">> \o op1 \o <<" ", "b", ")", " ">>
                                        \o op2 \o <<" ", "c", ")">>

C8_Witness ==
    /\ Returned
    /\ input = Text(ChainLexemes(<<"-">>, <<"+">>))
    /\ Len(Statements) = 1
    /\ Statements[1].expression.kind = "InfixExpression"

(***************************************************************************)
(* C9.  Binary operators bind by level, Equals < LessGreater < Sum <       *)
(* Product: for lo of a lower level than hi, the text of `a lo b hi c` is  *)
(* `(a lo (b hi c))` and the text of `a hi b lo c` is `((a hi b) lo c)`.   *)
(***************************************************************************)
C9_HigherLevelBindsTighter ==
    Returned =>
        \A lo \in BinaryOperators, hi \in BinaryOperators :
            Level(lo) < Level(hi) =>
                /\ input = Text(ChainLexemes(lo, hi)) =>
                       String(ret) = <<"(", "a", " ">> \o lo \o <<" ", "(", "b", " ">>
                                         \o hi \o <<" ", "c", ")", ")">>
                /\ input = Text(ChainLexemes(hi, lo)) =>
                       String(ret) = <<"(", "(", "a", " ">> \o hi \o <<" ", "b", ")", " ">>
                                         \o lo \o <<" ", "c", ")">>

C9_Witness ==
    /\ Returned
    /\ input = Text(ChainLexemes(<<"=", "=">>, <<"*">>))
    /\ Len(Statements) = 1
    /\ Statements[1].expression.kind = "InfixExpression"
    /\ Statements[1].expression.right.kind = "InfixExpression"

(***************************************************************************)
(* C10.  Unary operators bind tighter than every binary operator: `p x b   *)
(* y` parses to Infix(Prefix(p, x), b, y), whose text is `((px) b y)`, and *)
(* nested prefixes nest right to left: the text of `p q a` is `(p(qa))`.   *)
(***************************************************************************)
C10_PrefixBindsTightest ==
    Returned =>
        /\ \A p \in PrefixOperators, b \in BinaryOperators :
               input = Text(PrefixInfixLexemes(p, b))
                   => /\ Statements =
                             OneExpression(OperatorToken(p),
                                 InfixOf(PrefixOf(p, Operand(<<"x">>)), b,
                                         Operand(<<"y">>)))
                      /\ String(ret) = <<"(", "(">> \o p \o <<"x", ")", " ">> \o b
                                           \o <<" ", "y", ")">>
        /\ \A p \in PrefixOperators, q \in PrefixOperators :
               input = Text(PrefixPrefixLexemes(p, q))
                   => /\ Statements =
                             OneExpression(OperatorToken(p),
                                 PrefixOf(p, PrefixOf(q, Operand(<<"a">>))))
                      /\ String(ret) = <<"(">> \o p \o <<"(">> \o q \o <<"a", ")", ")">>

C10_Witness ==
    /\ Returned
    /\ input = Text(PrefixInfixLexemes(<<"-">>, <<"*">>))
    /\ Len(Statements) = 1
    /\ Statements[1].expression.kind = "InfixExpression"
    /\ Statements[1].expression.left.kind = "PrefixExpression"

(***************************************************************************)
(* C11.  A parenthesised sub-expression is parsed up to its `)` and is one *)
(* operand of the surrounding expression, with no node of its own: `( a op *)
(* b )` parses to the AST of `a op b`, and in `a op1 ( b op2 c ) op3 d`    *)
(* the group Infix(b, op2, c) is one operand whatever the three operators: *)
(* the left operand of op3 when op3 binds tighter than op1, the right      *)
(* operand of op1 otherwise.  No parse function aborts on these buffers.   *)
(***************************************************************************)
C11_GroupIsOneOperand ==
    /\ input \in GroupedBuffers \cup NestedGroupBuffers => status # "panicked"
    /\ (Returned /\ input \in GroupedBuffers) =>
           \A op \in BinaryOperators :
               input = Text(GroupedLexemes(op))
                   => /\ Statements =
                             OneExpression(Token("Lparen", <<"(">>),
                                 InfixOf(Operand(<<"a">>), op, Operand(<<"b">>)))
                      /\ parser.errors = <<>>
    /\ (Returned /\ input \in NestedGroupBuffers) =>
           \A op1 \in BinaryOperators, op2 \in BinaryOperators,
              op3 \in BinaryOperators :
               input = Text(NestedGroupLexemes(op1, op2, op3))
                   => LET group == InfixOf(Operand(<<"b">>), op2, Operand(<<"c">>))
                      IN /\ Statements =
                                OneExpression(Token("Ident", <<"a">>),
                                    IF Level(op1) < Level(op3)
                                    THEN InfixOf(Operand(<<"a">>), op1,
                                                 InfixOf(group, op3, Operand(<<"d">>)))
                                    ELSE InfixOf(InfixOf(Operand(<<"a">>), op1, group),
                                                 op3, Operand(<<"d">>)))
                         /\ parser.errors = <<>>

C11_Witness ==
    /\ Returned
    /\ input = Text(NestedGroupLexemes(<<"*">>, <<"+">>, <<"*">>))
    /\ Len(Statements) = 1
    /\ String(ret) = <<"(", "(", "a", " ", "*", " ", "(", "b", " ", "+", " ", "c",
                       ")", ")", " ", "*", " ", "d", ")">>

(***************************************************************************)
(* C12.  A `(` that follows a complete expression is an infix trigger at   *)
(* Call precedence: `add ( <arguments> )` parses, with no diagnostic and   *)
(* without aborting, to one expression statement holding one Call node     *)
(* whose callee is add and whose arguments are the argument expressions in *)
(* source order; the text of `add ( 1 , 2 * 3 )` is `add(1, (2 * 3))`.     *)
(***************************************************************************)
C12_CallIsInfix ==
    /\ input \in CallBuffers => status # "panicked"
    /\ (Returned /\ input \in CallBuffers) =>
           \A arguments \in CallArguments :
               input = Text(CallLexemes(WAdd, arguments))
                   => /\ Statements =
                             OneExpression(Token("Ident", WAdd),
                                 CallExpression(Token("Lparen", <<"(">>),
                                     Operand(WAdd),
                                     [i \in 1..Len(arguments) |->
                                          ValueAst(arguments[i])]))
                      /\ parser.errors = <<>>
                      /\ Len(arguments) = 2 =>
                             String(ret) = <<"a", "d", "d", "(", "1", ",", " ", "(",
                                             "2", " ", "*", " ", "3", ")", ")">>

(***************************************************************************)
(* C13.  Diagnostics accumulate in the order the malformed tokens are met  *)
(* and use the two fixed templates: a sequence of malformed bind           *)
(* statements records the diagnostics of its statements one after the      *)
(* other, and `var x 5; var = 10; var 838383;` records exactly [expected   *)
(* Assign got Int, expected Ident got Assign, no prefix parse function for *)
(* Assign, expected Ident got Int].                                        *)
(***************************************************************************)
ExpectedGot(expected, actual) ==
    <<"expected next token to be ", expected, ", got ", actual, " instead">>

NoPrefixFor(token_type) ==
    <<"no prefix parse function for ", token_type, " found">>

\* the diagnostics of each malformed bind statement
MalformedDiagnostics ==
    <<<<ExpectedGot("Assign", "Int")>>,
      <<ExpectedGot("Ident", "Assign"), NoPrefixFor("Assign")>>,
      <<ExpectedGot("Ident", "Int")>>>>

C13_DiagnosticsInOrder ==
    /\ input \in MalformedBuffers => status # "panicked"
    /\ (Returned /\ input \in MalformedBuffers) =>
           \A l \in MalformedLists :
               input = MalformedText(l)
                   => parser.errors =
                          Flatten([i \in 1..Len(l) |-> MalformedDiagnostics[l[i]]])

C13_Witness ==
    /\ Returned
    /\ input = MalformedText(<<1, 2, 3>>)
    /\ parser.errors = <<ExpectedGot("Assign", "Int"), ExpectedGot("Ident", "Assign"),
                         NoPrefixFor("Assign"), ExpectedGot("Ident", "Int")>>

(***************************************************************************)
(* C14.  expect_peek(kind) has two outcomes.  When the lookahead has the   *)
(* expected kind, the call advances by one token (the current token        *)
(* becomes the old lookahead and the lookahead the next token of the       *)
(* lexer), returns true and leaves the diagnostics as they were.           *)
(* Otherwise it appends the one diagnostic `expected next token to be      *)
(* <kind>, got <lookahead kind> instead`, returns false and leaves the     *)
(* current token, the lookahead and the lexer as they were.  Checked for   *)
(* every kind the parse functions expect, at every state of a parse, for   *)
(* the calls that return (next_token returning its token).                 *)
(***************************************************************************)
ExpectedKinds == {"Ident", "Assign", "Lparen", "Rparen", "Lbrace"}

ExpectOutcome(p, kind, r) ==
    IF p.peek_token.token_type = kind
    THEN /\ r.ok
         /\ r.p.current_token = p.peek_token
         /\ r.p.peek_token = next_token(p.lexer).tok
         /\ r.p.errors = p.errors
    ELSE /\ ~r.ok
         /\ r.p.errors = Append(p.errors, ExpectedGot(kind, p.peek_token.token_type))
         /\ r.p.current_token = p.current_token
         /\ r.p.peek_token = p.peek_token
         /\ r.p.lexer = p.lexer

Returns(r) == ~Panicked(r.p)

C14_ExpectTwoOutcomes ==
    status = "running" =>
        \A kind \in ExpectedKinds :
            With(expect_peek(parser, kind),
                 LAMBDA r : Returns(r) => ExpectOutcome(parser, kind, r))

\* both outcomes have happened: expect_peek(Ident) advanced to x and
\* expect_peek(Assign) then failed on 5
C14_Witness ==
    /\ input = MalformedText(<<1>>)
    /\ parser.errors = <<ExpectedGot("Assign", "Int")>>
    /\ parser.current_token = Token("Ident", <<"x">>)
    /\ parser.peek_token = Token("Int", <<"5">>)

(***************************************************************************)
(* C15, as claimed.  When expect_peek fails inside a statement, the rest   *)
(* of that statement, up to its terminator, is not parsed again: a buffer  *)
(* of malformed bind statements gives a Program with no statement and only *)
(* the one diagnostic of the failed expect_peek of each.                   *)
(***************************************************************************)
ExpectDiagnostics ==
    <<<<ExpectedGot("Assign", "Int")>>,
      <<ExpectedGot("Ident", "Assign")>>,
      <<ExpectedGot("Ident", "Int")>>>>

C15_RestIsNotParsedAgain ==
    (Returned /\ input \in MalformedBuffers) =>
        \A l \in MalformedLists :
            input = MalformedText(l)
                => /\ Statements = <<>>
                   /\ parser.errors =
                          Flatten([i \in 1..Len(l) |-> ExpectDiagnostics[l[i]]])

(***************************************************************************)
(* C15, amended.  When expect_peek fails inside a bind statement, the      *)
(* statement is abandoned with that one diagnostic and adds no bind node,  *)
(* and parse_program goes on one token after the token that was current at *)
(* the failure: the rest of the failed statement is parsed as new          *)
(* statements.  `var x 5 ;` adds the statement 5, `var = 10 ;` adds an     *)
(* expression statement without expression for `=` (and its diagnostic)    *)
(* and the statement 10, `var 838383 ;` adds the statement 838383.         *)
(***************************************************************************)
ResumedStatements ==
    <<<<ExpressionStatement(Token("Int", <<"5">>), Operand(<<"5">>))>>,
      <<ExpressionStatement(Token("Assign", <<"=">>), NONE),
        ExpressionStatement(Token("Int", <<"1", "0">>), Operand(<<"1", "0">>))>>,
      <<ExpressionStatement(Token("Int", <<"8", "3", "8", "3", "8", "3">>),
                            Operand(<<"8", "3", "8", "3", "8", "3">>))>>>>

C15_RestIsParsedAsStatements ==
    /\ input \in MalformedBuffers => status # "panicked"
    /\ (Returned /\ input \in MalformedBuffers) =>
           \A l \in MalformedLists :
               input = MalformedText(l)
                   => /\ Statements =
                             Flatten([i \in 1..Len(l) |-> ResumedStatements[l[i]]])
                      /\ parser.errors =
                             Flatten([i \in 1..Len(l) |-> MalformedDiagnostics[l[i]]])

C15_Witness ==
    /\ Returned
    /\ input = MalformedText(<<2>>)
    /\ Len(Statements) = 2
    /\ Len(parser.errors) = 2
    /\ ~IsSome(Statements[1].expression)

(***************************************************************************)
(* C16.  An integer literal that does not fit a 64-bit signed value is     *)
(* treated like a missing prefix handler: the diagnostic `could not parse  *)
(* <literal> as integer` is recorded, no expression is produced, no value  *)
(* is made up, and the rest of the program is still parsed:                *)
(* `9223372036854775808 ; x ;` ends with the statement x.                  *)
(***************************************************************************)
CouldNotParse(literal) == <<"could not parse ", literal, " as integer">>

C16_OverflowIsDiagnosed ==
    /\ input \in OverflowBuffers => status # "panicked"
    /\ (Returned /\ input \in OverflowBuffers) =>
           /\ parser.errors = <<CouldNotParse(TooBig)>>
           /\ \A i \in 1..Len(Statements) :
                  Statements[i].token.token_type = "Int"
                      => ~IsSome(Statements[i].expression)
           /\ input = Text(<<TooBig, <<";">>, <<"x">>, <<";">>>>)
                  => /\ Statements # <<>>
                     /\ Statements[Len(Statements)] =
                            ExpressionStatement(Token("Ident", <<"x">>),
                                                Operand(<<"x">>))

(***************************************************************************)
(* C17.  A token with no prefix handler, met where an expression starts,   *)
(* is fatal to that expression only: one diagnostic `no prefix parse       *)
(* function for <Kind> found` is recorded for it, no parse function        *)
(* aborts, and the later well-formed statement `x ;` is still parsed and   *)
(* is the last statement of the Program.                                   *)
(***************************************************************************)
\* the kind of the token at which the expression e has no prefix handler
NoPrefixKind(e) ==
    IF e = <<<<"=">>>> THEN "Assign"
    ELSE IF e = <<<<")">>>> THEN "Rparen"
    ELSE "Semicolon"

Count(errors, msg) == Cardinality({i \in 1..Len(errors) : errors[i] = msg})

C17_NoPrefixIsLocal ==
    /\ input \in NoPrefixBuffers => status # "panicked"
    /\ (Returned /\ input \in NoPrefixBuffers) =>
           \A e \in NoPrefixLexemes :
               input = NoPrefixText(e)
                   => /\ Count(parser.errors, NoPrefixFor(NoPrefixKind(e))) = 1
                      /\ Statements # <<>>
                      /\ Statements[Len(Statements)] =
                             ExpressionStatement(Token("Ident", <<"x">>),
                                                 Operand(<<"x">>))

(***************************************************************************)
(* C18.  The parser rejects every lexical error: when the buffer holds a   *)
(* character that starts no token, as an expression statement or as the    *)
(* value of a bind or return statement, parse_program returns with the     *)
(* diagnostic `no prefix parse function for Illegal found` in its list.    *)
(***************************************************************************)
Diagnostics == {parser.errors[i] : i \in 1..Len(parser.errors)}

C18_IllegalIsRejected ==
    /\ input \in IllegalBuffers => status # "panicked"
    /\ (Returned /\ input \in IllegalBuffers) => NoPrefixFor("Illegal") \in Diagnostics

(***************************************************************************)
(* C19.  Stringify-parse fixed point: when an expression has parsed with   *)
(* no diagnostic, tokenizing and parsing its text again does not abort,    *)
(* records no diagnostic and gives a Program whose text is that same text. *)
(***************************************************************************)
C19_TextIsFixedPoint ==
    printed # NONE =>
        /\ status # "panicked"
        /\ Returned => /\ parser.errors = <<>>
                       /\ String(ret) = printed.text

(***************************************************************************)
(* C20.  `if ( x op y ) { x }`, alone or followed by `else { y }`, parses  *)
(* with no diagnostic to one If node whose condition is Infix(x, op, y),   *)
(* whose consequence is the block of the one statement x, and whose        *)
(* alternative is the block of the one statement y when the `else` is      *)
(* there and is absent when it is not.                                     *)
(***************************************************************************)
\* the block { w }
BlockOf(w) ==
    BlockStatement(Token("Lbrace", <<"{">>),
                   <<ExpressionStatement(Token("Ident", w), Operand(w))>>)

C20_IfElse ==
    /\ input \in IfBuffers => status # "panicked"
    /\ (Returned /\ input \in IfBuffers) =>
           \A op \in BinaryOperators, else \in BOOLEAN :
               input = Text(IfLexemes(op, else))
                   => /\ parser.errors = <<>>
                      /\ Len(Statements) = 1
                      /\ Statements[1].kind = "ExpressionStatement"
                      /\ Statements[1].token = Token("If", WIf)
                      /\ Statements[1].expression.kind = "IfExpression"
                      /\ Statements[1].expression.token = Token("If", WIf)
                      /\ Statements[1].expression.condition =
                             InfixOf(Operand(<<"x">>), op, Operand(<<"y">>))
                      /\ Statements[1].expression.consequence = BlockOf(<<"x">>)
                      /\ Statements[1].expression.alternative =
                             IF else THEN BlockOf(<<"y">>) ELSE NONE
                      /\ String(Statements[1].expression.consequence) = <<"x">>
                      /\ else => String(Statements[1].expression.alternative) = <<"y">>

C20_Witness ==
    /\ Returned
    /\ input = Text(IfLexemes(<<"<">>, TRUE))
    /\ Len(Statements) = 1
    /\ Statements[1].expression.kind = "IfExpression"
    /\ IsSome(Statements[1].expression.alternative)

(***************************************************************************)
(* C21.  parse_block_statement collects its statements in source order and *)
(* stops at the first `}` of its own nesting level or at the end of the    *)
(* input: a block whose `}` is missing records no diagnostic, holds the    *)
(* statements parsed so far (the same as the block that is closed), and    *)
(* the parse neither aborts nor spins but returns.                         *)
(***************************************************************************)
\* the statement written by the lexemes st of a block body
BlockStatementOf(st) ==
    IF Head(st) = WRet THEN RetStatement(Token("Ret", WRet), NONE)
    ELSE ExpressionStatement(Token("Ident", st[1]), Operand(st[1]))

\* the block of the statements of body
BlockWith(body) ==
    [kind |-> "BlockStatement", token |-> Token("Lbrace", <<"{">>),
     statements |-> [i \in 1..Len(body) |-> BlockStatementOf(body[i])]]

\* the block of the one expression, the consequence of an if or the body of
\* a function literal
BlockIn(expression) ==
    IF expression.kind = "IfExpression" THEN expression.consequence
    ELSE expression.body

C21_BlockEndsAtBraceOrEof ==
    input \in BlockBuffers =>
        /\ status # "panicked"
        /\ ~SkipLoopSpins
        /\ parser.errors = <<>>
        /\ Returned =>
               /\ Len(Statements) = 1
               /\ \A head \in BlockHeads, body \in BlockBodies, closed \in BOOLEAN :
                      input = Text(BlockLexemes(head, body, closed))
                          => BlockIn(Statements[1].expression) = BlockWith(body)
               /\ \A closed \in BOOLEAN :
                      input = Text(NestedBlockLexemes(closed))
                          => /\ Len(BlockIn(Statements[1].expression).statements) = 2
                             /\ BlockIn(BlockIn(Statements[1].expression)
                                            .statements[1].expression)
                                    = BlockWith(<<<<<<"x">>>>>>)
                             /\ BlockIn(Statements[1].expression).statements[2]
                                    = BlockStatementOf(<<<<"y">>>>)

\* a block that ends at the end of the input, after two statements
C21_Witness ==
    /\ Returned
    /\ input = Text(BlockLexemes(<<WDef, <<"(">>, <<")">>>>,
                                 <<<<WRet, <<"x">>, <<";">>>>, <<<<"y">>>>>>, FALSE))
    /\ Len(Statements) = 1
    /\ Len(Statements[1].expression.body.statements) = 2
    /\ parser.errors = <<>>

(***************************************************************************)
(* C22.  A function literal's parameter list is zero or more               *)
(* comma-separated identifiers between parentheses: `def()` has no         *)
(* parameter, `def(p1, ..., pn)` has the n parameters in source order, and *)
(* a list that the closing parenthesis does not follow records             *)
(* `expected next token to be Rparen, got <Actual> instead`.  For          *)
(* `def(x, y) { x + y; }` the parameters are x and y and the text of the   *)
(* body is (x + y).                                                        *)
(***************************************************************************)
\* the identifiers of names
IdentifiersOf(names) == [i \in 1..Len(names) |-> Operand(names[i])]

C22_ParameterList ==
    /\ \A n \in 0..Len(ParameterNames) :
          Returned /\ input = Text(DefLexemes(SubSeq(ParameterNames, 1, n)))
              => /\ parser.errors = <<>>
                 /\ Len(Statements) = 1
                 /\ Statements[1].expression.kind = "FunctionLiteral"
                 /\ Statements[1].expression.parameters
                        = IdentifiersOf(SubSeq(ParameterNames, 1, n))
    /\ Returned /\ input = Text(<<WDef, <<"(">>, <<"x">>, <<",">>, <<"y">>, <<")">>,
                                  <<"{">>, <<"x">>, <<"+">>, <<"y">>, <<";">>, <<"}">>>>)
          => /\ parser.errors = <<>>
             /\ Statements[1].expression.parameters = IdentifiersOf(<<<<"x">>, <<"y">>>>)
             /\ String(Statements[1].expression.body) = <<"(", "x", " ", "+", " ", "y", ")">>
    /\ \A n \in 1..Len(ParameterNames), t \in UnclosedTails :
          /\ status \in {"returned", "panicked"}
          /\ input = Text(UnclosedDefLexemes(SubSeq(ParameterNames, 1, n), t.after))
          => /\ parser.errors # <<>>
             /\ parser.errors[1] = ExpectedGot("Rparen", t.actual)

\* three parameters in source order
C22_Witness ==
    /\ Returned
    /\ input = Text(DefLexemes(ParameterNames))
    /\ Len(Statements[1].expression.parameters) = 3
    /\ Statements[1].expression.parameters[3].value = <<"z">>

(***************************************************************************)
(* C23.  The two-character operators come first: when the current          *)
(* character is `=` (or `!`) and the one after it is `=`, next_token        *)
(* returns the one token Eq (or NotEq) and consumes both characters;       *)
(* otherwise it returns Assign (or Bang) and consumes one.  So `===` is    *)
(* Eq, Assign and `!==` is NotEq, Assign.                                  *)
(***************************************************************************)
\* a buffer of one-byte characters: a byte offset is a character offset
IsAscii(s) == ByteLen(s) = Len(s)

\* the character of the buffer after the one at byte offset position
CharAfter(s, position) == IF position + 2 <= Len(s) THEN s[position + 2] ELSE NUL

C23_TwoCharFirst ==
    /\ (status = "lexing" /\ IsAscii(input)) =>
           LET l == skip_whitespace(lexer)
               r == next_token(lexer)
           IN l.ch \in {"=", "!"} =>
                  IF CharAfter(input, l.position) = "="
                  THEN /\ r.tok = Token(IF l.ch = "=" THEN "Eq" ELSE "NotEq", <<l.ch, "=">>)
                       /\ r.l.position = l.position + 2
                  ELSE /\ r.tok = Token(IF l.ch = "=" THEN "Assign" ELSE "Bang", <<l.ch>>)
                       /\ r.l.position = l.position + 1
    /\ (input = <<"=", "=", "=">> /\ Len(stream) >= 2) =>
           SubSeq(stream, 1, 2) = <<Token("Eq", <<"=", "=">>), Token("Assign", <<"=">>)>>
    /\ (input = <<"!", "=", "=">> /\ Len(stream) >= 2) =>
           SubSeq(stream, 1, 2) = <<Token("NotEq", <<"!", "=">>), Token("Assign", <<"=">>)>>

\* `!==` has been read as NotEq, Assign
C23_Witness ==
    /\ input = <<"!", "=", "=">>
    /\ stream = <<Token("NotEq", <<"!", "=">>), Token("Assign", <<"=">>)>>

(***************************************************************************)
(* C24.  A reserved word is recognized by exact match on the whole maximal *)
(* run of letters and underscores: the run is a keyword token when it is   *)
(* one of def, var, true, false, if, else, ret, and an Ident otherwise, as *)
(* iff, variable and ret_ are.                                             *)
(***************************************************************************)
\* the longest prefix of s made of ASCII letters and underscores
RECURSIVE MaximalRun(_)
MaximalRun(s) ==
    IF s = <<>> \/ ~(IsAlphabetic(Head(s)) \/ Head(s) = "_") THEN <<>>
    ELSE <<Head(s)>> \o MaximalRun(Tail(s))

\* the kind of the token a run of letters and underscores is
KindOfRun(run) ==
    CASE run = <<"d","e","f">> -> "Function"
      [] run = <<"v","a","r">> -> "Var"
      [] run = <<"t","r","u","e">> -> "True"
      [] run = <<"f","a","l","s","e">> -> "False"
      [] run = <<"i","f">> -> "If"
      [] run = <<"e","l","s","e">> -> "Else"
      [] run = <<"r","e","t">> -> "Ret"
      [] OTHER -> "Ident"

OneOutput ==
    status = "printed" =>
        IF parser.errors # <<>>
        THEN /\ Len(output) = Len(Banner) + Len(parser.errors)
             /\ SubSeq(output, 1, Len(Banner)) = Banner
             /\ \A i \in 1..Len(parser.errors) :
                    output[Len(Banner) + i] = <<"\t">> \o parser.errors[i]
        ELSE output = <<String(ret)>>

\* the step after the output starts the parse of a line, nothing printed
ThenReads ==
    status = "printed" => /\ status' \in {"running", "panicked"}
                          /\ output' = <<>>
                          /\ parser' = NewParser(NewLexer(input'))

\* the end of a turn: nothing is printed between parse_program's return and
\* the output, and nothing after it
OutputOnce ==
    /\ status = "returned" => status' = "printed" /\ output = <<>>
    /\ status' = "printed" => status = "returned"

C25_DiagnosticsOrText == []OneOutput /\ [][ThenReads /\ OutputOnce]_vars

\* three diagnostics have been printed under the banner
C25_Witness ==
    /\ status = "printed"
    /\ Len(parser.errors) = 3
    /\ Len(output) = 6
    /\ output[4] = <<"\t">> \o parser.errors[1]

(***************************************************************************)
(* C26.  The text of a function literal.  As claimed: the keyword, `(`,    *)
(* the parameter names joined by `, `, `)`, one space, the text of the     *)
(* body, so that `def(x, y) { x + y; }` is `def(x, y) (x + y)`.  As the    *)
(* code and its tests have it: the same with nothing between `)` and the   *)
(* text of the body, so that it is `def(x, y)(x + y)` and `def() {}` is    *)
(* `def()`.                                                                *)
(***************************************************************************)
\* def ( x , y ) { x + y ; }
SumFunction ==
    Text(<<WDef, <<"(">>, <<"x">>, <<",">>, <<"y">>, <<")">>,
           <<"{">>, <<"x">>, <<"+">>, <<"y">>, <<";">>, <<"}">>>>)

\* the claim as written: one space before the text of the body
C26_SpaceBeforeBody ==
    (Returned /\ input = SumFunction) =>
        String(Statements[1].expression)
            = <<"d","e","f","(","x",","," ","y",")"," ","(","x"," ","+"," ","y",")">>

C26_NoSpaceBeforeBody ==
    /\ (Returned /\ input = SumFunction) =>
           String(Statements[1].expression)
               = <<"d","e","f","(","x",","," ","y",")","(","x"," ","+"," ","y",")">>
    /\ \A n \in 0..Len(ParameterNames) :
           (Returned /\ input = Text(DefLexemes(SubSeq(ParameterNames, 1, n)))) =>
               String(Statements[1].expression)
                   = WDef \o <<"(">>
                          \o JoinWith(SubSeq(ParameterNames, 1, n), <<",", " ">>)
                          \o <<")">>
    /\ \A head \in BlockHeads, body \in BlockBodies, closed \in BOOLEAN :
           (Returned /\ head[1] = WDef
                     /\ input = Text(BlockLexemes(head, body, closed))) =>
               String(Statements[1].expression)
                   = <<"d","e","f","(",")">> \o String(BlockWith(body))

\* the text of def ( x , y ) { x + y ; } has been computed
C26_Witness ==
    /\ status = "printed"
    /\ input = SumFunction
    /\ output = <<<<"d","e","f","(","x",","," ","y",")","(","x"," ","+"," ","y",")">>>>

(***************************************************************************)
(* C27.  The climbing loop of parse_expression(min) consumes an infix      *)
(* operator only when the lookahead is not `;` and its precedence is       *)
(* strictly greater than min: no expression extends across a terminator.   *)
(* `a op1 b ; - c op2 d` is the two statements (a op1 b) and               *)
(* ((-c) op2 d), and `3 + 4; -5 * 5` is (3 + 4) and ((-5) * 5).            *)
(***************************************************************************)
\* a step of the loop that advances to the lookahead
LoopConsumes ==
    /\ At("parse_expression", "loop")
    /\ parser'.current_token # parser.current_token

\* what the loop consumes is an operator bound above min and no terminator
ConsumesAboveMin ==
    LoopConsumes =>
        /\ parser.peek_token.token_type # "Semicolon"
        /\ Head(stack).precedence < PRECEDENCES(parser.peek_token.token_type)
        /\ parser'.current_token = parser.peek_token

TwoStatements ==
    /\ input \in TerminatedBuffers => status # "panicked" /\ parser.errors = <<>>
    /\ \A op1 \in BinaryOperators, op2 \in BinaryOperators :
           (Returned /\ input = Text(TerminatedLexemes(op1, op2))) =>
               /\ Len(Statements) = 2
               /\ Statements[1].expression = InfixOf(Operand(<<"a">>), op1, Operand(<<"b">>))
               /\ Statements[2].expression
                      = InfixOf(PrefixOf(<<"-">>, Operand(<<"c">>)), op2, Operand(<<"d">>))
    /\ (Returned /\ input = Text(<<<<"3">>, <<"+">>, <<"4">>, <<";">>, <<"-">>,
                                     <<"5">>, <<"*">>, <<"5">>>>)) =>
           /\ Len(Statements) = 2
           /\ String(Statements[1]) = <<"(", "3", " ", "+", " ", "4", ")">>
           /\ String(Statements[2]) = <<"(", "(", "-", "5", ")", " ", "*", " ", "5", ")">>

C27_StopsAtTerminator == []TwoStatements /\ [][ConsumesAboveMin]_vars

\* `a + b ; - c * d` has been parsed to its two statements
C27_Witness ==
    /\ Returned
    /\ input = Text(TerminatedLexemes(<<"+">>, <<"*">>))
    /\ Len(Statements) = 2
    /\ Statements[2].expression.left.kind = "PrefixExpression"

(***************************************************************************)
(* C28.  Every parameter of a function literal is built from an Ident      *)
(* token: when a token of another kind stands where a parameter is         *)
(* expected, as in `def(1, 2) {}`, a diagnostic is recorded and no         *)
(* parameter is made of that token.                                        *)
(***************************************************************************)
\* the parameter lists parse_function_parameters has built so far
ParameterLists ==
    {stack[i].identifiers : i \in {j \in 1..Len(stack) :
                                       stack[j].fn = "parse_function_parameters"}}
        \cup (IF ret.kind = "Parameters" THEN {ret.identifiers} ELSE {})

C28_ParametersAreIdentifiers ==
    /\ \A ps \in ParameterLists : \A i \in 1..Len(ps) :
           ps[i].token.token_type = "Ident"
    /\ (Returned /\ input \in BadParameterBuffers) => parser.errors # <<>>

(***************************************************************************)
(* C29.  Eof is absorbing and marks only real exhaustion: on every input,  *)
(* one with a NUL character in the middle included, next_token returns    *)
(* Eof only when no character of the input remains, and no token other     *)
(* than Eof follows an Eof in the stream of tokens.                        *)
(***************************************************************************)
C29_EofIsAbsorbing ==
    /\ \A i \in 1..Len(stream), j \in 1..Len(stream) :
           (i < j /\ stream[i].token_type = "Eof") => stream[j].token_type = "Eof"
    /\ (status = "lexing" /\ ~lexer.panicked /\ IsAscii(input)
           /\ next_token(lexer).tok.token_type = "Eof")
          => skip_whitespace(lexer).position >= Len(input)

(***************************************************************************)
(* C30.  Every token kind the precedence table binds above Lowest has an   *)
(* infix handler in the parser: in the climbing loop of parse_expression   *)
(* the branch that advances and returns for want of a handler is never     *)
(* taken, and each token the loop consumes becomes the operator of a node. *)
(***************************************************************************)
\* the kinds of the tokens of token.rs
TokenKinds ==
    {"Illegal", "Eof", "Ident", "Int", "Assign", "Plus", "Minus", "Bang",
     "Asterisk", "Slash", "Lt", "Gt", "Eq", "NotEq", "Comma", "Semicolon",
     "Lparen", "Rparen", "Lbrace", "Rbrace", "Function", "Var", "True", "False",
     "If", "Else", "Ret"}

\* the loop is about to consume the lookahead
LoopClimbs ==
    /\ At("parse_expression", "loop")
    /\ ClimbOn(parser, Head(stack).precedence)

\* the loop hands the token it consumes to an infix handler
HandlerCalled ==
    LoopClimbs =>
        /\ status' \in {"running", "panicked"}
        /\ status' = "running" =>
               /\ Len(stack') = Len(stack) + 1
               /\ Head(stack').fn = "parse_infix_expression"
               /\ Head(stack').left = Head(stack).left
               /\ parser'.current_token = parser.peek_token

HandlerExists ==
    /\ \A token_type \in TokenKinds :
           PRECEDENCES(token_type) > Lowest => infix_parse_fns(token_type) # ""
    /\ LoopClimbs => infix_parse_fns(parser.peek_token.token_type) # ""

C30_InfixHandlerForEachPrecedence == []HandlerExists /\ [][HandlerCalled]_vars

\* the loop is about to consume a `/`
C30_Witness ==
    /\ LoopClimbs
    /\ parser.peek_token.token_type = "Slash"

====
